---- MODULE Spec2Model ----
(***************************************************************************)
(* PishGuard: decision pipeline, safety governance controller and          *)
(* governance engine, modelled from the Python sources under src/.         *)
(*                                                                         *)
(* Probabilities are integers in thousandths (850 = 0.85).  Risk scores    *)
(* are integers in units of 1e-4 (850000 = 85.0).  Time is a counter of    *)
(* ticks; one tick is one hour.                                            *)
(***************************************************************************)
EXTENDS Integers, Sequences, FiniteSets, TLC

VARIABLES
    now,             \* wall clock, in ticks
    freeze_file,     \* governance_state/freeze_state.json
    budget_file,     \* governance_state/safety_budget.json
    trust_file,      \* governance_state/domain_trust_timestamps.json
    trusted_domains, \* DecisionPipeline.trusted_checker.trusted_domains
    cache,           \* ANALYSIS_CACHE
    audit_log,       \* audit/policy_override.log (entries)
    eng_disk,        \* governance_state.json of the GovernanceEngine
    eng_mem,         \* in-memory state of each GovernanceEngine instance
    eng_next_id,     \* number of override ids generated so far
    upd,             \* position of each worker inside update_state
    file_lock,       \* holder of the advisory lock on governance_state.json
    upd_hist,        \* update_state calls started, and successful ones per counter
    blocklist,       \* the BlocklistChecker singleton: sets, last refresh, lock
    bl_threads,      \* position and locals of each thread inside check
    calibration,     \* CalibrationMonitor: status of the cached metrics
    audit_io,        \* audit/policy_override.log (lines) and the threads appending to it
    consumers,       \* threads inside consume_override_budget, and successful returns
    xai_audit,       \* XAI audit logger: queue, listeners, file, and the threads recording
    telemetry,       \* ExplanationTelemetry: metrics, lock, and the threads inside record
    ret              \* outcome of the last operation

EngVars == <<eng_disk, eng_mem, eng_next_id>>
LockVars == <<upd, file_lock, upd_hist>>
BlVars == <<blocklist, bl_threads>>
MonVars == <<calibration>>
AuxVars == <<audit_io, consumers, xai_audit, telemetry>>

vars == <<now, freeze_file, budget_file, trust_file, trusted_domains, cache, audit_log,
          eng_disk, eng_mem, eng_next_id, upd, file_lock, upd_hist, blocklist,
          bl_threads, calibration, audit_io, consumers, xai_audit, telemetry, ret>>

(***************************************************************************)
(* Bounds of the model                                                     *)
(***************************************************************************)
MaxTime == 2
MaxEvents == 1
MaxAudit == 2
MaxOverrides == 4
MaxExcess == 1
MaxUpdates == 3
MaxCanaryRuns == 6
MaxAppends == 3
MaxRecords == 3
MaxScans == 3

NoTime == 0 - 1
None == "None"

(***************************************************************************)
(* Program constants                                                       *)
(***************************************************************************)
PHISHING_THRESHOLD == 850
SUSPICIOUS_THRESHOLD == 550
TRUSTED_DOMAIN_MAX_RISK == 300000
NETWORK_FAILURE_PENALTY == 150
MAX_OVERRIDES_PER_HOUR == 5
MIN_JUSTIFICATION == 20
HourTicks == 1

FreezeReason == {"TRUSTED_DOMAIN_PHISHING", "BUDGET_EXHAUSTED", "CALIBRATION_ESCALATION", "MANUAL_FREEZE"}
Verdict == {"SAFE", "SUSPICIOUS", "PHISHING"}

Min(a, b) == IF a < b THEN a ELSE b

(***************************************************************************)
(* Result record of an operation: the operation, the exception it raised   *)
(* (None when it returned) and the returned value.                         *)
(***************************************************************************)
Ret(op, exc, val) == [op |-> op, exc |-> exc, val |-> val]

(***************************************************************************)
(* safety_governance.py: persisted records                                 *)
(***************************************************************************)
\* The timestamps resumed_at and last_reset_at are write-only in the program
\* and are left out; frozen_at and override_window_start are kept.
\* json_valid is not a field of the dataclass: it tells whether the bytes of
\* freeze_state.json can be read and parsed (FALSE after a truncated write).
FreezeState == [is_frozen |-> FALSE, frozen_at |-> NoTime, frozen_by |-> None,
                freeze_reason |-> None, incident_id |-> None, freeze_details |-> None,
                resumed_by |-> None, resume_justification |-> NoTime,
                resume_incident_id |-> None, json_valid |-> TRUE]

SafetyBudgetState == [override_count_hourly |-> 0, override_window_start |-> NoTime,
                      suspicious_trusted_count |-> 0, phishing_trusted_count |-> 0,
                      last_reset_by |-> None]

\* Variant of is_override_budget_exhausted that tolerates one more override.
is_override_budget_exhausted_strict(state) == state.override_count_hourly > MAX_OVERRIDES_PER_HOUR

is_override_budget_exhausted(state) == state.override_count_hourly >= MAX_OVERRIDES_PER_HOUR

\* GovernanceStatePersistence.load_freeze_state / load_budget_state
load_freeze_state == IF freeze_file.json_valid THEN freeze_file ELSE FreezeState
load_budget_state == budget_file

\* SafetyGovernanceController.is_frozen
is_frozen == load_freeze_state.is_frozen

\* The FreezeState written by trigger_freeze: a fresh record, resume fields empty.
trigger_freeze(reason, triggered_by, incident_id, details) ==
    [FreezeState EXCEPT !.is_frozen = TRUE, !.frozen_at = now, !.frozen_by = triggered_by,
                        !.freeze_reason = reason, !.incident_id = incident_id,
                        !.freeze_details = details]

\* check_override_budget: the budget state it leaves on disk and its answer.
WindowExpired(state) ==
    /\ state.override_window_start # NoTime
    /\ now - state.override_window_start > HourTicks

\* Variant of check_override_budget that resets the counter on every call.
check_override_budget_always_resets(state) ==
    [state EXCEPT !.override_count_hourly = 0, !.override_window_start = now]

check_override_budget_state(state) ==
    IF WindowExpired(state)
    THEN [state EXCEPT !.override_count_hourly = 0, !.override_window_start = now]
    ELSE state

check_override_budget_allowed(state) ==
    ~ is_override_budget_exhausted(check_override_budget_state(state))

\* consume_override_budget: outcome as [exc, freeze, budget]
consume_override_budget(context) ==
    IF is_frozen
    THEN [exc |-> "SystemFrozenError", freeze |-> freeze_file, budget |-> budget_file]
    ELSE LET checked == check_override_budget_state(load_budget_state)
         IN IF ~ check_override_budget_allowed(load_budget_state)
            THEN [exc |-> "BudgetExhaustedError",
                  freeze |-> trigger_freeze("BUDGET_EXHAUSTED", "SafetyGovernanceController",
                                            "BUDGET_EXHAUSTED_ts", context),
                  budget |-> checked]
            ELSE [exc |-> None, freeze |-> freeze_file,
                  budget |-> [checked EXCEPT
                                !.override_count_hourly = checked.override_count_hourly + 1,
                                !.override_window_start =
                                    IF checked.override_window_start = NoTime
                                    THEN now ELSE checked.override_window_start]]

(***************************************************************************)
(* SafetyGovernanceController: operations                                  *)
(***************************************************************************)
Tick ==
    /\ now < MaxTime
    /\ now' = now + 1
    /\ ret' = Ret("tick", None, None)
    /\ UNCHANGED <<AuxVars, MonVars, BlVars, EngVars, LockVars, freeze_file, budget_file, trust_file, trusted_domains, cache, audit_log>>

\* SafetyGovernanceController.__init__ / _check_initial_state: a new
\* controller instance (re-instantiation, process restart).
Restart ==
    /\ ret' = Ret("restart", None, load_freeze_state.is_frozen)
    /\ UNCHANGED <<AuxVars, MonVars, BlVars, EngVars, LockVars, now, freeze_file, budget_file, trust_file, trusted_domains, cache, audit_log>>

\* freeze_state.json is left unreadable or with corrupt JSON (_write_json
\* truncates the file before it dumps; a crash in between leaves it empty)
CorruptFreezeState ==
    /\ freeze_file.json_valid
    /\ freeze_file' = [freeze_file EXCEPT !.json_valid = FALSE]
    /\ ret' = Ret("corrupt_freeze_state", None, None)
    /\ UNCHANGED <<AuxVars, MonVars, BlVars, EngVars, LockVars, now, budget_file, trust_file, trusted_domains, cache, audit_log>>

TriggerFreeze(reason, triggered_by, incident_id) ==
    /\ freeze_file' = trigger_freeze(reason, triggered_by, incident_id, None)
    /\ ret' = Ret("trigger_freeze", None, None)
    /\ UNCHANGED <<AuxVars, MonVars, BlVars, EngVars, LockVars, now, budget_file, trust_file, trusted_domains, cache, audit_log>>

ResumeFromFreeze(resumed_by, incident_id, justification) ==
    LET state == load_freeze_state
    IN /\ IF ~ state.is_frozen \/ incident_id = "" \/ justification < MIN_JUSTIFICATION
          THEN /\ ret' = Ret("resume_from_freeze", "ValueError",
                             [incident_id |-> incident_id, justification |-> justification])
               /\ UNCHANGED freeze_file
          ELSE /\ freeze_file' = [state EXCEPT !.is_frozen = FALSE,
                                               !.resumed_by = resumed_by,
                                               !.resume_justification = justification,
                                               !.resume_incident_id = incident_id]
               /\ ret' = Ret("resume_from_freeze", None,
                             [incident_id |-> incident_id, justification |-> justification])
       /\ UNCHANGED <<AuxVars, MonVars, BlVars, EngVars, LockVars, now, budget_file, trust_file, trusted_domains, cache, audit_log>>

CheckOverrideBudget ==
    /\ budget_file' = check_override_budget_state(load_budget_state)
    /\ ret' = Ret("check_override_budget", None,
                  [allowed |-> check_override_budget_allowed(load_budget_state),
                   count_before |-> load_budget_state.override_count_hourly])
    /\ UNCHANGED <<AuxVars, MonVars, BlVars, EngVars, LockVars, now, freeze_file, trust_file, trusted_domains, cache, audit_log>>

ConsumeOverrideBudget(context) ==
    LET r == consume_override_budget(context)
    IN /\ freeze_file' = r.freeze
       /\ budget_file' = r.budget
       /\ ret' = Ret("consume_override_budget", r.exc, None)
       /\ UNCHANGED <<AuxVars, MonVars, BlVars, EngVars, LockVars, now, trust_file, trusted_domains, cache, audit_log>>

ResetBudget(reset_by, justification, incident_id) ==
    /\ IF justification < MIN_JUSTIFICATION
       THEN /\ ret' = Ret("reset_budget", "ValueError", None)
            /\ UNCHANGED budget_file
       ELSE /\ budget_file' = [load_budget_state EXCEPT !.override_count_hourly = 0,
                                                        !.last_reset_by = reset_by]
            /\ ret' = Ret("reset_budget", None, None)
    /\ UNCHANGED <<AuxVars, MonVars, BlVars, EngVars, LockVars, now, freeze_file, trust_file, trusted_domains, cache, audit_log>>

\* Variant of report_trusted_domain_verdict that raises on PHISHING without
\* triggering the freeze.
report_verdict_without_freeze(domain, verdict) ==
    LET state == load_budget_state
    IN IF verdict = "PHISHING"
       THEN [exc |-> "InvariantViolationError", freeze |-> freeze_file,
             budget |-> [state EXCEPT !.phishing_trusted_count = state.phishing_trusted_count + 1]]
       ELSE IF verdict = "SUSPICIOUS"
       THEN [exc |-> None, freeze |-> freeze_file,
             budget |-> [state EXCEPT !.suspicious_trusted_count = state.suspicious_trusted_count + 1]]
       ELSE [exc |-> None, freeze |-> freeze_file, budget |-> state]

\* Variant of report_trusted_domain_verdict that only logs a SUSPICIOUS
\* verdict, without counting it.
report_verdict_suspicious_uncounted(domain, verdict) ==
    LET state == load_budget_state
    IN IF verdict = "PHISHING"
       THEN [exc |-> "InvariantViolationError",
             freeze |-> trigger_freeze("TRUSTED_DOMAIN_PHISHING", "SafetyGovernanceController",
                                       "TRUSTED_PHISHING_ts", domain),
             budget |-> [state EXCEPT !.phishing_trusted_count = state.phishing_trusted_count + 1]]
       ELSE [exc |-> None, freeze |-> freeze_file, budget |-> state]

\* report_trusted_domain_verdict: outcome as [exc, freeze, budget]
report_trusted_domain_verdict(domain, verdict) ==
    LET state == load_budget_state
    IN IF verdict = "PHISHING"
       THEN [exc |-> "InvariantViolationError",
             freeze |-> trigger_freeze("TRUSTED_DOMAIN_PHISHING", "SafetyGovernanceController",
                                       "TRUSTED_PHISHING_ts", domain),
             budget |-> [state EXCEPT !.phishing_trusted_count = state.phishing_trusted_count + 1]]
       ELSE IF verdict = "SUSPICIOUS"
       THEN [exc |-> None, freeze |-> freeze_file,
             budget |-> [state EXCEPT !.suspicious_trusted_count = state.suspicious_trusted_count + 1]]
       ELSE [exc |-> None, freeze |-> freeze_file, budget |-> state]

ReportTrustedDomainVerdict(domain, verdict) ==
    LET r == report_trusted_domain_verdict(domain, verdict)
    IN /\ r.budget.phishing_trusted_count <= MaxEvents
       /\ r.budget.suspicious_trusted_count <= MaxEvents
       /\ freeze_file' = r.freeze
       /\ budget_file' = r.budget
       /\ ret' = Ret("report_trusted_domain_verdict", r.exc,
                     [verdict |-> verdict, was_frozen |-> is_frozen])
       /\ UNCHANGED <<AuxVars, MonVars, BlVars, EngVars, LockVars, now, trust_file, trusted_domains, cache, audit_log>>

RegisterTrustedDomain(domain, reviewed_by) ==
    /\ IF is_frozen
       THEN /\ ret' = Ret("register_trusted_domain", "SystemFrozenError", None)
            /\ UNCHANGED trust_file
       ELSE /\ trust_file' = [trust_file EXCEPT ![domain] = "full"]
            /\ ret' = Ret("register_trusted_domain", None, None)
    /\ UNCHANGED <<AuxVars, MonVars, BlVars, EngVars, LockVars, now, freeze_file, budget_file, trusted_domains, cache, audit_log>>

DemoteToProbation(domain) ==
    /\ IF trust_file[domain] = None
       THEN /\ ret' = Ret("demote_to_probation", "ValueError", None)
            /\ UNCHANGED trust_file
       ELSE /\ trust_file' = [trust_file EXCEPT ![domain] = "probation"]
            /\ ret' = Ret("demote_to_probation", None, None)
    /\ UNCHANGED <<AuxVars, MonVars, BlVars, EngVars, LockVars, now, freeze_file, budget_file, trusted_domains, cache, audit_log>>

(***************************************************************************)
(* trusted_domains.py: registered-domain parsing and the trust check.      *)
(* URLs are a small table of representative strings, each given as the     *)
(* sequence of its parts; the parsing is computed on that sequence.        *)
(***************************************************************************)
URLS == {"https://accounts.google.com", "http://evil.xyz/login", "HTTP://Evil.xyz/login", "https://city.gov/pay"}

\* url.lower().strip(): the string that is hashed into the cache key
NormalizedUrl(url) ==
    CASE url = "https://accounts.google.com" -> "https://accounts.google.com"
      [] url = "http://evil.xyz/login" -> "http://evil.xyz/login"
      [] url = "HTTP://Evil.xyz/login" -> "http://evil.xyz/login"
      [] url = "https://city.gov/pay" -> "https://city.gov/pay"

CacheKeys == {NormalizedUrl(u) : u \in URLS}

\* The strings handed to the check, as the sequence of their parts: the
\* labels and the separators that the splitting code looks for
Chars(url) ==
    CASE url = "https://accounts.google.com" -> <<"https", "://", "accounts", ".", "google", ".", "com">>
      [] url = "http://evil.xyz/login" -> <<"http", "://", "evil", ".", "xyz", "/", "login">>
      [] url = "HTTP://Evil.xyz/login" -> <<"HTTP", "://", "Evil", ".", "xyz", "/", "login">>
      [] url = "https://city.gov/pay" -> <<"https", "://", "city", ".", "gov", "/", "pay">>
      [] url = "google.com" -> <<"google", ".", "com">>
      [] url = "evil.xyz" -> <<"evil", ".", "xyz">>
      [] url = "accounts.google.com" -> <<"accounts", ".", "google", ".", "com">>
      [] url = "google.com.evil.xyz" -> <<"google", ".", "com", ".", "evil", ".", "xyz">>
      [] url = "https://google.com.evil.xyz" -> <<"https", "://", "google", ".", "com", ".", "evil", ".", "xyz">>
      [] url = "google-login.com" -> <<"google-login", ".", "com">>
      [] url = "http://google.com:80@evil.xyz/login" ->
             <<"http", "://", "google", ".", "com", ":", "80", "@", "evil", ".", "xyz", "/", "login">>

\* str.lower()
lower(chars) ==
    [i \in DOMAIN chars |-> CASE chars[i] = "HTTP" -> "http"
                              [] chars[i] = "Evil" -> "evil"
                              [] OTHER -> chars[i]]

\* Position of the first and of the last occurrence of sep, 0 if absent
find(chars, sep) ==
    IF \E i \in DOMAIN chars : chars[i] = sep
    THEN CHOOSE i \in DOMAIN chars :
             chars[i] = sep /\ \A j \in 1..(i - 1) : chars[j] # sep
    ELSE 0

rfind(chars, sep) ==
    IF \E i \in DOMAIN chars : chars[i] = sep
    THEN CHOOSE i \in DOMAIN chars :
             chars[i] = sep /\ \A j \in (i + 1)..Len(chars) : chars[j] # sep
    ELSE 0

\* s.split(sep, 1)[0], s.split(sep, 1)[1] when sep occurs, s.rpartition(sep)[-1]
before_first(chars, sep) ==
    IF find(chars, sep) = 0 THEN chars ELSE SubSeq(chars, 1, find(chars, sep) - 1)

after_first(chars, sep) ==
    IF find(chars, sep) = 0 THEN chars ELSE SubSeq(chars, find(chars, sep) + 1, Len(chars))

after_last(chars, sep) ==
    IF rfind(chars, sep) = 0 THEN chars ELSE SubSeq(chars, rfind(chars, sep) + 1, Len(chars))

\* ".".join(labels), for the up to three labels of a public suffix
dot_join(labels) ==
    CASE Len(labels) = 0 -> ""
      [] Len(labels) = 1 -> labels[1]
      [] Len(labels) = 2 -> labels[1] \o "." \o labels[2]
      [] Len(labels) = 3 -> labels[1] \o "." \o labels[2] \o "." \o labels[3]

\* The public suffixes that the sample strings end in
PUBLIC_SUFFIXES == {<<"com">>, <<"xyz">>, <<"gov">>}

\* tldextract.extract: the network location is what follows the scheme, up
\* to the path, after the user information and before the port; its longest
\* public suffix is the suffix and the label before it is the domain
netloc(chars) ==
    before_first(after_last(before_first(after_first(chars, "://"), "/"), "@"), ":")

\* netloc.split(".")
split_labels(domain) == SelectSeq(domain, LAMBDA c : c # ".")

\* Number of trailing labels that form the longest public suffix
suffix_length(labels) ==
    CHOOSE k \in 0..Len(labels) :
        /\ k = 0 \/ SubSeq(labels, Len(labels) - k + 1, Len(labels)) \in PUBLIC_SUFFIXES
        /\ \A o \in (k + 1)..Len(labels) :
               SubSeq(labels, Len(labels) - o + 1, Len(labels)) \notin PUBLIC_SUFFIXES

ExtractResult(labels, k) ==
    [domain |-> IF Len(labels) > k THEN labels[Len(labels) - k] ELSE "",
     suffix |-> dot_join(SubSeq(labels, Len(labels) - k + 1, Len(labels)))]

tldextract_extract(chars) ==
    ExtractResult(split_labels(netloc(chars)), suffix_length(split_labels(netloc(chars))))

\* f"{extracted.domain}.{extracted.suffix}", or the domain alone
registered_domain_of(extracted) ==
    IF extracted.suffix # ""
    THEN extracted.domain \o "." \o extracted.suffix
    ELSE extracted.domain

\* TrustedDomainChecker._extract_registered_domain: lower and strip, drop
\* the protocol, the path and whatever follows the first colon, then
\* tldextract
_extract_registered_domain(chars) ==
    registered_domain_of(tldextract_extract(
        before_first(before_first(after_first(lower(chars), "://"), "/"), ":")))

\* Strings that imitate an allowlisted domain, with one real subdomain of it
AdversarialDomains ==
    {"accounts.google.com", "google.com.evil.xyz", "https://google.com.evil.xyz",
     "google-login.com", "http://google.com:80@evil.xyz/login"}

\* Every string the model hands to the parser, and the parser's results on
\* them (worked out once)
CheckedStrings == URLS \cup AdversarialDomains \cup {"google.com", "evil.xyz"}

registered_domains == [url \in CheckedStrings |-> _extract_registered_domain(Chars(url))]

suffixes == [url \in CheckedStrings |-> tldextract_extract(lower(Chars(url))).suffix]

extract_registered_domain(url) == registered_domains[url]

\* tldextract.extract(url_or_domain.lower()).suffix
extract_suffix(url) == suffixes[url]

\* The seed allowlist (a sample of TRUSTED_DOMAINS) and the domains that
\* runtime additions and removals name.
TRUSTED_DOMAINS == {"google.com", "gov"}
RuntimeDomains == {"evil.xyz"}
TrustFileDomains == {"evil.xyz"}
ReportedDomains == {"google.com"}

\* TrustedDomainChecker.check
check(url) ==
    LET registered_domain == extract_registered_domain(url)
    IN IF registered_domain \in trusted_domains
       THEN [is_trusted |-> TRUE, registered_domain |-> registered_domain,
             matched_domain |-> registered_domain]
       ELSE IF extract_suffix(url) \in trusted_domains
       THEN [is_trusted |-> TRUE, registered_domain |-> registered_domain,
             matched_domain |-> extract_suffix(url)]
       ELSE [is_trusted |-> FALSE, registered_domain |-> registered_domain,
             matched_domain |-> None]

\* A caller of TrustedDomainChecker.check
Check(url) ==
    /\ ret' = Ret("check", None, [url |-> url] @@ check(url))
    /\ UNCHANGED <<AuxVars, MonVars, BlVars, EngVars, LockVars, now, freeze_file, budget_file,
                   trust_file, trusted_domains, cache, audit_log>>

(***************************************************************************)
(* decision_pipeline.py: DecisionPipeline.analyze                          *)
(***************************************************************************)
\* What the environment answers during one analysis:
\*   blk  - the blocklist check: "none", "url" (exact match, confidence
\*          0.99), "domain" (domain match, confidence 0.85) or "error"
\*   fe   - the feature extractor: valid = FALSE when it raises ValueError,
\*          else the set of failed network operations and the number of
\*          phishing signals it explains
\*   p    - the model's calibrated phishing probability, in thousandths
BlocklistOutcomes == {"none", "url", "domain", "error"}
FailureSets == {{}, {"http", "whois", "dns"}}
FeatureOutcomes == [valid : BOOLEAN, failed : FailureSets, phishing_signals : {6}]
Probabilities == {100, 600, 900}

\* Step 7: the confidence penalty, in thousandths
confidence_penalty(failed) ==
    (IF "http" \in failed THEN (NETWORK_FAILURE_PENALTY * 5) \div 10 ELSE 0)
  + (IF "whois" \in failed THEN (NETWORK_FAILURE_PENALTY * 3) \div 10 ELSE 0)
  + (IF "dns" \in failed THEN (NETWORK_FAILURE_PENALTY * 2) \div 10 ELSE 0)

\* Thresholds compared with > where the code compares with >=
threshold_verdict_exclusive(phishing_prob) ==
    IF phishing_prob > PHISHING_THRESHOLD THEN "PHISHING"
    ELSE IF phishing_prob > SUSPICIOUS_THRESHOLD THEN "SUSPICIOUS"
    ELSE "SAFE"

\* Step 6: tri-state thresholds
threshold_verdict(phishing_prob) ==
    IF phishing_prob >= PHISHING_THRESHOLD THEN "PHISHING"
    ELSE IF phishing_prob >= SUSPICIOUS_THRESHOLD THEN "SUSPICIOUS"
    ELSE "SAFE"

\* A penalty that raises the score of a PHISHING verdict instead of lowering it
adjusted_risk_score_escalating(phishing_prob, failed) ==
    IF confidence_penalty(failed) > 0 /\ threshold_verdict(phishing_prob) = "PHISHING"
    THEN phishing_prob * (1000 + confidence_penalty(failed))
    ELSE phishing_prob * 1000

\* Step 7: risk score after the drift-aware adjustment (units of 1e-4)
adjusted_risk_score(phishing_prob, failed) ==
    IF confidence_penalty(failed) > 0 /\ threshold_verdict(phishing_prob) = "PHISHING"
    THEN phishing_prob * (1000 - confidence_penalty(failed))
    ELSE phishing_prob * 1000

adjusted_verdict(phishing_prob, failed) ==
    IF /\ confidence_penalty(failed) > 0
       /\ threshold_verdict(phishing_prob) = "PHISHING"
       /\ adjusted_risk_score(phishing_prob, failed) < PHISHING_THRESHOLD * 1000
    THEN "SUSPICIOUS"
    ELSE threshold_verdict(phishing_prob)

\* The AnalysisResult as constructed at the top of analyze, with the trust
\* check of step 2 stored.  An Optional field is a set of at most one value
\* (failure_flags = {} is None); explanation carries its four keys from the
\* start, every return path assigns it.
Explanation(risk, analysis_complete, allowlist_override, blocklist_match) ==
    [risk |-> risk, analysis_complete |-> analysis_complete,
     allowlist_override |-> allowlist_override, blocklist_match |-> blocklist_match]

AnalysisResult(url) ==
    [verdict |-> "SAFE", risk_score |-> 0, is_trusted_domain |-> check(url).is_trusted,
     trust_check |-> check(url), failure_flags |-> {},
     explanation |-> Explanation(0, FALSE, FALSE, FALSE), warnings |-> {}, url |-> url,
     ml_bypassed |-> FALSE, calibrated_probability |-> 0]

\* A trusted-domain result that still lists a risk signal
TrustedResult_with_risk(url) ==
    [AnalysisResult(url) EXCEPT
        !.verdict = "SAFE", !.risk_score = Min(150000, TRUSTED_DOMAIN_MAX_RISK),
        !.ml_bypassed = TRUE,
        !.explanation = Explanation(1, TRUE, TRUE, FALSE)]

\* Step 2: the trusted domain gate
TrustedResult(url) ==
    [AnalysisResult(url) EXCEPT
        !.verdict = "SAFE", !.risk_score = Min(150000, TRUSTED_DOMAIN_MAX_RISK),
        !.ml_bypassed = TRUE,
        !.explanation = Explanation(0, TRUE, TRUE, FALSE)]

BlockedResult(url, blk) ==
    [AnalysisResult(url) EXCEPT
        !.verdict = "PHISHING", !.risk_score = IF blk = "url" THEN 950000 ELSE 850000,
        !.ml_bypassed = TRUE,
        !.explanation = Explanation(1, TRUE, FALSE, TRUE)]

InvalidResult(url) ==
    [AnalysisResult(url) EXCEPT
        !.verdict = "SUSPICIOUS", !.risk_score = 500000,
        !.warnings = {"URL validation failed"},
        !.explanation = Explanation(1, FALSE, FALSE, FALSE)]

ModelResult(url, fe, p) ==
    [AnalysisResult(url) EXCEPT
        !.failure_flags = {fe.failed},
        !.calibrated_probability = p,
        !.verdict = adjusted_verdict(p, fe.failed),
        !.risk_score = adjusted_risk_score(p, fe.failed),
        !.warnings = (IF fe.failed # {} THEN {"network issues"} ELSE {})
                     \cup (IF adjusted_verdict(p, fe.failed) # threshold_verdict(p)
                           THEN {"downgraded"} ELSE {}),
        !.explanation = Explanation(Min(fe.phishing_signals, 5), fe.failed = {}, FALSE, FALSE)]

\* ANALYSIS_CACHE[cache_key] = result
CachePut(cache_key, result) ==
    [k \in DOMAIN cache \cup {cache_key} |-> IF k = cache_key THEN result ELSE cache[k]]

\* analyze: [result, cache, path, model_called, reported].  path names the
\* step that produced the result; reported tells whether step 9 handed the
\* verdict to report_verdict_for_trusted_domain, which it does for a result
\* whose is_trusted_domain is set and only when the call gets that far.
analyze(url, bypass_cache, blk, fe, p) ==
    LET cache_key == NormalizedUrl(url)
    IN IF ~ bypass_cache /\ cache_key \in DOMAIN cache
       THEN [result |-> cache[cache_key], cache |-> cache, path |-> "cache",
             model_called |-> FALSE, reported |-> FALSE]
       ELSE IF check(url).is_trusted
       THEN [result |-> TrustedResult(url), cache |-> cache, path |-> "trusted",
             model_called |-> FALSE, reported |-> FALSE]
       ELSE IF blk \in {"url", "domain"}
       THEN [result |-> BlockedResult(url, blk),
             cache |-> CachePut(cache_key, BlockedResult(url, blk)),
             path |-> "blocklist", model_called |-> FALSE, reported |-> FALSE]
       ELSE IF ~ fe.valid
       THEN [result |-> InvalidResult(url), cache |-> cache, path |-> "invalid",
             model_called |-> FALSE, reported |-> FALSE]
       ELSE [result |-> ModelResult(url, fe, p),
             cache |-> CachePut(cache_key, ModelResult(url, fe, p)),
             path |-> "model", model_called |-> TRUE,
             reported |-> ModelResult(url, fe, p).is_trusted_domain]

\* DecisionPipeline.analyze, called directly (analyze_url, batch_scan)
Analyze(url, bypass_cache, blk, fe, p) ==
    LET a == analyze(url, bypass_cache, blk, fe, p)
    IN /\ cache' = a.cache
       /\ ret' = Ret("analyze", None,
                     [url |-> url, bypass_cache |-> bypass_cache,
                      result |-> a.result, path |-> a.path,
                      model_called |-> a.model_called, reported |-> a.reported,
                      was_frozen |-> is_frozen,
                      in_allowlist |-> extract_registered_domain(url) \in trusted_domains])
       /\ UNCHANGED <<AuxVars, MonVars, BlVars, EngVars, LockVars, now, freeze_file, budget_file, trust_file, trusted_domains, audit_log>>

\* TTLCache: an entry expires after the TTL (or is evicted)
CacheExpire(key) ==
    /\ key \in DOMAIN cache
    /\ cache' = [k \in DOMAIN cache \ {key} |-> cache[k]]
    /\ ret' = Ret("cache_expire", None, None)
    /\ UNCHANGED <<AuxVars, MonVars, BlVars, EngVars, LockVars, now, freeze_file, budget_file, trust_file, trusted_domains, audit_log>>

(***************************************************************************)
(* app.py: scan_url                                                        *)
(***************************************************************************)
Scan(url, blk, fe, p) ==
    IF load_freeze_state.is_frozen
    THEN /\ ret' = Ret("scan", None, [status |-> 503, reason |-> load_freeze_state.freeze_reason])
         /\ UNCHANGED <<AuxVars, MonVars, BlVars, EngVars, LockVars, now, freeze_file, budget_file, trust_file, trusted_domains, cache, audit_log>>
    ELSE LET a == analyze(url, FALSE, blk, fe, p)
         IN /\ cache' = a.cache
            /\ ret' = Ret("scan", None, [status |-> 200, result |-> a.result, path |-> a.path])
            /\ UNCHANGED <<AuxVars, MonVars, BlVars, EngVars, LockVars, now, freeze_file, budget_file, trust_file, trusted_domains, audit_log>>

(***************************************************************************)
(* app.py: batch_scan, for a batch of one valid URL                        *)
(***************************************************************************)
BatchScan(url, blk, fe, p) ==
    LET a == analyze(url, FALSE, blk, fe, p)
    IN /\ cache' = a.cache
       /\ ret' = Ret("batch_scan", None,
                     [status |-> 200, total |-> 1,
                      results |-> <<[url |-> url, verdict |-> a.result.verdict]>>,
                      path |-> a.path])
       /\ UNCHANGED <<AuxVars, MonVars, BlVars, EngVars, LockVars, now, freeze_file, budget_file,
                      trust_file, trusted_domains, audit_log>>

(***************************************************************************)
(* trusted_domains.py: runtime allowlist changes                           *)
(***************************************************************************)
AuditEntry(domain, context) ==
    [event_type |-> "ALLOWLIST_MODIFICATION", affected_domains |-> domain, context |-> context]

\* An allowlist change applied before the governance checks are consulted
ModifyAllowlist_unguarded(op, domain, context, new_domains) ==
    LET r == consume_override_budget(context)
    IN /\ Len(audit_log) < MaxAudit
       /\ freeze_file' = r.freeze
       /\ budget_file' = r.budget
       /\ ret' = Ret(op, r.exc, domain)
       /\ trusted_domains' = new_domains
       /\ IF r.exc = None
          THEN audit_log' = Append(audit_log, AuditEntry(extract_registered_domain(domain), context))
          ELSE UNCHANGED audit_log
       /\ UNCHANGED <<AuxVars, MonVars, BlVars, EngVars, LockVars, now, trust_file, cache>>

\* add_domain / remove_domain: assert_not_frozen, consume_override_budget,
\* the set operation, then the audit entry
ModifyAllowlist(op, domain, context, new_domains) ==
    LET r == consume_override_budget(context)
    IN /\ Len(audit_log) < MaxAudit
       /\ freeze_file' = r.freeze
       /\ budget_file' = r.budget
       /\ ret' = Ret(op, r.exc, domain)
       /\ IF r.exc = None
          THEN /\ trusted_domains' = new_domains
               /\ audit_log' = Append(audit_log, AuditEntry(extract_registered_domain(domain), context))
          ELSE UNCHANGED <<trusted_domains, audit_log>>
       /\ UNCHANGED <<AuxVars, MonVars, BlVars, EngVars, LockVars, now, trust_file, cache>>

AddDomain(domain) ==
    ModifyAllowlist("add_domain", domain, "runtime_add_domain",
                    trusted_domains \cup {extract_registered_domain(domain)})

RemoveDomain(domain) ==
    ModifyAllowlist("remove_domain", domain, "runtime_remove_domain",
                    trusted_domains \ {extract_registered_domain(domain)})

\* add_domain / remove_domain when the audit write raises: _append_to_log
\* turns the IOError into a RuntimeError, which leaves log_override and the
\* allowlist operation; the statements before the audit call have run
ModifyAllowlistAuditFails(op, domain, context, new_domains) ==
    LET r == consume_override_budget(context)
    IN /\ freeze_file' = r.freeze
       /\ budget_file' = r.budget
       /\ IF r.exc = None
          THEN /\ trusted_domains' = new_domains
               /\ ret' = Ret(op, "RuntimeError", domain)
          ELSE /\ ret' = Ret(op, r.exc, domain)
               /\ UNCHANGED trusted_domains
       /\ UNCHANGED <<AuxVars, MonVars, BlVars, EngVars, LockVars, now, trust_file, cache, audit_log>>

AddDomainAuditFails(domain) ==
    ModifyAllowlistAuditFails("add_domain", domain, "runtime_add_domain",
                              trusted_domains \cup {extract_registered_domain(domain)})

RemoveDomainAuditFails(domain) ==
    ModifyAllowlistAuditFails("remove_domain", domain, "runtime_remove_domain",
                              trusted_domains \ {extract_registered_domain(domain)})

(***************************************************************************)
(* governance_engine.py: GovernanceEngine                                  *)
(*                                                                         *)
(* eng_disk is the content of governance_state.json (exists = FALSE while  *)
(* the file has not been created); eng_mem[e] holds the attributes         *)
(* overrides and safety_budget of engine instance e.  window_start and     *)
(* last_updated are write-only in the program and are left out.            *)
(***************************************************************************)
Engines == {"e1", "e2"}

SUSPICIOUS_ON_TRUSTED_LIMIT == 0
OVERRIDES_PER_WINDOW == 3
CANARY_FAILURES_LIMIT == 5
EMERGENCY_MAX_DURATION == 24
TESTING_MAX_DURATION == 1

OverrideType == {"permanent", "emergency", "testing"}
OverrideAuthority == {"security-team", "on-call", "ci-system"}
SafetyEvents == {"suspicious_on_trusted", "override", "canary_failure"}

SafetyBudgetStatus == [suspicious_on_trusted |-> 0, overrides_used |-> 0, canary_failures |-> 0,
                       is_frozen |-> FALSE, freeze_reason |-> None]

\* SafetyBudgetStatus.is_budget_exceeded, one key at a time
is_budget_exceeded(budget, key) ==
    CASE key = "suspicious_on_trusted" -> budget.suspicious_on_trusted > SUSPICIOUS_ON_TRUSTED_LIMIT
      [] key = "overrides_per_window" -> budget.overrides_used > OVERRIDES_PER_WINDOW
      [] key = "canary_failures" -> budget.canary_failures > CANARY_FAILURES_LIMIT

\* Override.is_expired
is_expired(override) == override.expires_at # NoTime /\ now > override.expires_at

CANARY_MIN_PASSES == 5
CANARY_MIN_SAMPLE_SIZE == 100

\* CanarySignal(domain=domain); last_run is a time in ticks
CanarySignal(domain) ==
    [domain |-> domain, test_runs |-> 0, passes |-> 0, failures |-> 0, sample_size |-> 0,
     last_run |-> NoTime, last_verdict |-> None, consecutive_passes |-> 0]

\* canary_signals = {}
NoSignals == [d \in {} |-> CanarySignal(d)]

\* CanarySignal.pass_rate() >= 1.0, with passes / test_runs kept as a fraction
pass_rate_is_one(signal) == signal.test_runs # 0 /\ signal.passes >= signal.test_runs

\* CanarySignal.has_sufficient_signal
has_sufficient_signal(signal) ==
    signal.test_runs >= CANARY_MIN_PASSES /\ signal.sample_size >= CANARY_MIN_SAMPLE_SIZE

\* The engine state right after _load_state finds no file
EmptyEngineState ==
    [overrides |-> <<>>, canary_signals |-> NoSignals, safety_budget |-> SafetyBudgetStatus]

MissingFile ==
    [exists |-> FALSE, overrides |-> <<>>, canary_signals |-> NoSignals,
     safety_budget |-> SafetyBudgetStatus]

_parse_state_data(data) ==
    [overrides |-> data.overrides, canary_signals |-> data.canary_signals,
     safety_budget |-> data.safety_budget]

_state_to_dict(mem) ==
    [exists |-> TRUE, overrides |-> mem.overrides, canary_signals |-> mem.canary_signals,
     safety_budget |-> mem.safety_budget]

\* _load_state in __init__; outcome is what open/json.load do on this read.
\* After a failed read the attributes overrides and canary_signals were never
\* assigned; they are shown as empty.  While another worker holds the lock
\* the shared lock times out and _load_state returns without assigning
\* anything: the instance keeps what it had.
LoadOutcomes == {"ok", "io_error", "json_error"}

_load_state(disk, mem, outcome) ==
    IF ~ disk.exists THEN EmptyEngineState
    ELSE IF file_lock # None THEN mem
    ELSE CASE outcome = "ok" -> _parse_state_data(disk)
           [] outcome = "io_error" ->
                [EmptyEngineState EXCEPT !.safety_budget.is_frozen = TRUE,
                                         !.safety_budget.freeze_reason = "State unreadable"]
           [] outcome = "json_error" -> EmptyEngineState

\* The mutators handed to update_state
_consume(state, budget_key, amount) ==
    [state EXCEPT !.safety_budget[budget_key] = @ + amount]

_add(state, override) ==
    [state EXCEPT !.overrides = Append(@, override),
                  !.safety_budget.overrides_used = @ + 1]

_freeze(state, reason) ==
    [state EXCEPT !.safety_budget.is_frozen = TRUE, !.safety_budget.freeze_reason = reason]

_lift(state) ==
    [state EXCEPT !.safety_budget.is_frozen = FALSE, !.safety_budget.freeze_reason = None]

_revoke(state, override_id) ==
    [state EXCEPT !.overrides = [i \in DOMAIN @ |->
        IF @[i].override_id = override_id THEN [@[i] EXCEPT !.is_active = FALSE] ELSE @[i]]]

\* A mutator closure: which inner function, and the values it captured
Mutator(kind, arg) == [kind |-> kind, arg |-> arg]

mutator_func(mutator, state) ==
    CASE mutator.kind = "_consume" -> _consume(state, mutator.arg.budget_key, mutator.arg.amount)
      [] mutator.kind = "_add" -> _add(state, mutator.arg)
      [] mutator.kind = "_freeze" -> _freeze(state, mutator.arg)
      [] mutator.kind = "_lift" -> _lift(state)
      [] mutator.kind = "_revoke" -> _revoke(state, mutator.arg)
      [] mutator.kind = "_state_to_dict" -> _state_to_dict(mutator.arg)

\* update_state as one step: outcome as [success, disk, mem].  A missing file
\* is first created from the caller's in-memory state; the mutator is applied
\* to what is read back and the result is parsed into memory.  While another
\* worker holds the lock, _acquire_lock times out and update_state returns
\* False with file and memory untouched.
update_state(disk, mem, mutator) ==
    IF file_lock # None
    THEN [success |-> FALSE, disk |-> disk, mem |-> mem]
    ELSE LET modified_state ==
                 mutator_func(mutator, IF disk.exists THEN disk ELSE _state_to_dict(mem))
         IN [success |-> TRUE, disk |-> modified_state,
             mem |-> _parse_state_data(modified_state)]

\* _trigger_freeze: in-memory flag, then trigger_freeze_atomic; yields [disk, mem]
_trigger_freeze(disk, mem, reason) ==
    LET flagged == [mem EXCEPT !.safety_budget.is_frozen = TRUE,
                               !.safety_budget.freeze_reason = reason]
        u == update_state(disk, flagged, Mutator("_freeze", reason))
    IN [disk |-> u.disk, mem |-> u.mem]

\* Validation that accepts a PERMANENT override without a review ticket
_validate_authority_without_ticket(override_type, authority, review_ticket) ==
    CASE override_type = "permanent" -> authority = "security-team"
      [] override_type = "emergency" -> authority \in {"security-team", "on-call"}
      [] override_type = "testing" -> authority = "ci-system"

\* _validate_authority: TRUE when no ValueError is raised
_validate_authority(override_type, authority, review_ticket) ==
    CASE override_type = "permanent" -> authority = "security-team" /\ review_ticket # ""
      [] override_type = "emergency" -> authority \in {"security-team", "on-call"}
      [] override_type = "testing" -> authority = "ci-system"

_calculate_expiration(override_type) ==
    CASE override_type = "permanent" -> NoTime
      [] override_type = "emergency" -> now + EMERGENCY_MAX_DURATION
      [] override_type = "testing" -> now + TESTING_MAX_DURATION

Override(override_id, override_type, authority, review_ticket) ==
    [override_id |-> override_id, override_type |-> override_type, authority |-> authority,
     expires_at |-> _calculate_expiration(override_type), review_ticket |-> review_ticket,
     is_active |-> TRUE]

\* request_override: outcome as [exc, disk, mem, granted]
request_override(disk, mem, override_type, authority, review_ticket) ==
    IF mem.safety_budget.is_frozen
    THEN [exc |-> "ValueError: System is frozen", disk |-> disk, mem |-> mem, granted |-> FALSE]
    ELSE IF ~ _validate_authority(override_type, authority, review_ticket)
    THEN [exc |-> "ValueError: authority", disk |-> disk, mem |-> mem, granted |-> FALSE]
    ELSE IF is_budget_exceeded(mem.safety_budget, "overrides_per_window")
    THEN LET f == _trigger_freeze(disk, mem, "Override budget exceeded")
         IN [exc |-> "ValueError: Override budget exceeded", disk |-> f.disk, mem |-> f.mem,
             granted |-> FALSE]
    ELSE LET override == Override(eng_next_id + 1, override_type, authority, review_ticket)
             u == update_state(disk, mem, Mutator("_add", override))
         IN IF ~ u.success
            THEN [exc |-> "ValueError: Failed to persist override", disk |-> u.disk,
                  mem |-> u.mem, granted |-> FALSE]
            ELSE [exc |-> None, disk |-> u.disk,
                  mem |-> [u.mem EXCEPT !.overrides = Append(@, override)],
                  granted |-> TRUE]

\* record_safety_event: outcome as [disk, mem]
BudgetKeyOf(event_type) ==
    CASE event_type = "suspicious_on_trusted" -> "suspicious_on_trusted"
      [] event_type = "override" -> "overrides_used"
      [] event_type = "canary_failure" -> "canary_failures"

\* f"Safety budget exceeded: {budget_type}"
BudgetFreezeReason(budget_type) ==
    CASE budget_type = "suspicious_on_trusted" -> "Safety budget exceeded: suspicious_on_trusted"
      [] budget_type = "overrides_per_window" -> "Safety budget exceeded: overrides_per_window"
      [] budget_type = "canary_failures" -> "Safety budget exceeded: canary_failures"

LimitOf(event_type) ==
    CASE event_type = "suspicious_on_trusted" -> SUSPICIOUS_ON_TRUSTED_LIMIT
      [] event_type = "override" -> OVERRIDES_PER_WINDOW
      [] event_type = "canary_failure" -> CANARY_FAILURES_LIMIT

record_safety_event(disk, mem, event_type) ==
    LET counted == [mem EXCEPT !.safety_budget[BudgetKeyOf(event_type)] = @ + 1]
        s1 == IF event_type = "suspicious_on_trusted"
              THEN _trigger_freeze(disk, counted, "CRITICAL: SUSPICIOUS verdict on trusted domain")
              ELSE [disk |-> disk, mem |-> counted]
        \* the budgets are compared once, before the loop over them
        exceeded == {k \in {"suspicious_on_trusted", "overrides_per_window", "canary_failures"} :
                        is_budget_exceeded(s1.mem.safety_budget, k)}
        first == IF "suspicious_on_trusted" \in exceeded THEN "suspicious_on_trusted"
                 ELSE IF "overrides_per_window" \in exceeded THEN "overrides_per_window"
                 ELSE "canary_failures"
        \* the first exceeded budget freezes; the flag then stops the others
        s2 == IF exceeded # {} /\ ~ s1.mem.safety_budget.is_frozen
              THEN LET u == update_state(s1.disk, s1.mem,
                                         Mutator("_freeze", BudgetFreezeReason(first)))
                   IN [disk |-> u.disk, mem |-> u.mem]
              ELSE s1
        synced == update_state(s2.disk, s2.mem, Mutator("_state_to_dict", s2.mem))
    IN [disk |-> synced.disk, mem |-> synced.mem]

\* lift_freeze: outcome as [disk, mem]; its three arguments are only logged
lift_freeze(disk, mem, lifted_by, resolution, review_ticket) ==
    IF ~ mem.safety_budget.is_frozen
    THEN [disk |-> disk, mem |-> mem]
    ELSE LET reset == [mem EXCEPT !.safety_budget = SafetyBudgetStatus]
             u == update_state(disk, reset, Mutator("_lift", None))
         IN [disk |-> u.disk, mem |-> u.mem]

\* record_canary_result: outcome as [disk, mem, signal]; signal is the object
\* the call returns, mem.canary_signals what the engine holds afterwards
record_canary_result(disk, mem, domain, verdict, sample_size) ==
    LET held == IF domain \in DOMAIN mem.canary_signals
                THEN mem.canary_signals[domain] ELSE CanarySignal(domain)
        run == [held EXCEPT !.test_runs = @ + 1, !.sample_size = @ + sample_size,
                            !.last_run = now, !.last_verdict = verdict]
        signal == IF verdict = "PHISHING"
                  THEN [run EXCEPT !.failures = @ + 1, !.consecutive_passes = 0]
                  ELSE [run EXCEPT !.passes = @ + 1, !.consecutive_passes = @ + 1]
        recorded == [mem EXCEPT !.canary_signals =
                        [d \in DOMAIN @ \cup {domain} |-> IF d = domain THEN signal ELSE @[d]]]
        \* consume_budget("canary_failures", 1), its result ignored
        s1 == IF verdict = "PHISHING"
              THEN update_state(disk, recorded,
                                Mutator("_consume", [budget_key |-> "canary_failures", amount |-> 1]))
              ELSE [success |-> TRUE, disk |-> disk, mem |-> recorded]
        s2 == IF verdict = "PHISHING" /\ is_budget_exceeded(s1.mem.safety_budget, "canary_failures")
              THEN update_state(s1.disk, s1.mem, Mutator("_freeze", "Canary failure budget exceeded"))
              ELSE s1
        synced == update_state(s2.disk, s2.mem, Mutator("_state_to_dict", s2.mem))
    IN [disk |-> synced.disk, mem |-> synced.mem, signal |-> signal]

\* check_promotion_eligibility: the "eligible" entry of the report
check_promotion_eligibility(mem, domain) ==
    /\ domain \in DOMAIN mem.canary_signals
    /\ has_sufficient_signal(mem.canary_signals[domain])
    /\ mem.canary_signals[domain].consecutive_passes >= CANARY_MIN_PASSES
    /\ pass_rate_is_one(mem.canary_signals[domain])

(***************************************************************************)
(* GovernanceEngine: operations                                            *)
(***************************************************************************)
PipeVars == <<trusted_domains, cache, audit_log>>
CtlVars == <<freeze_file, budget_file, trust_file>>

\* GovernanceEngine.__init__ in a worker process
EngineInit(e, outcome) ==
    /\ eng_mem' = [eng_mem EXCEPT ![e] = _load_state(eng_disk, eng_mem[e], outcome)]
    /\ ret' = Ret("engine_init", None,
                  [engine |-> e,
                   outcome |-> IF ~ eng_disk.exists THEN "missing"
                               ELSE IF file_lock # None THEN "lock_timeout" ELSE outcome])
    /\ UNCHANGED <<AuxVars, MonVars, BlVars, now, CtlVars, PipeVars, LockVars, eng_disk, eng_next_id>>

RequestOverride(e, override_type, authority, review_ticket) ==
    LET r == request_override(eng_disk, eng_mem[e], override_type, authority, review_ticket)
    IN /\ eng_next_id < MaxOverrides
       /\ eng_disk' = r.disk
       /\ eng_mem' = [eng_mem EXCEPT ![e] = r.mem]
       /\ eng_next_id' = IF r.granted THEN eng_next_id + 1 ELSE eng_next_id
       /\ ret' = Ret("request_override", r.exc,
                     [engine |-> e, granted |-> r.granted,
                      override_type |-> override_type, authority |-> authority,
                      review_ticket |-> review_ticket,
                      valid |-> _validate_authority(override_type, authority, review_ticket),
                      used_before |-> eng_mem[e].safety_budget.overrides_used,
                      granted_before |-> eng_next_id,
                      engine_frozen |-> eng_mem[e].safety_budget.is_frozen,
                      was_frozen |-> is_frozen])
       /\ UNCHANGED <<AuxVars, MonVars, BlVars, now, CtlVars, PipeVars, LockVars>>

RecordSafetyEvent(e, event_type) ==
    LET r == record_safety_event(eng_disk, eng_mem[e], event_type)
    IN /\ eng_mem[e].safety_budget[BudgetKeyOf(event_type)] <= LimitOf(event_type) + MaxExcess
       /\ eng_disk' = r.disk
       /\ eng_mem' = [eng_mem EXCEPT ![e] = r.mem]
       /\ ret' = Ret("record_safety_event", None, [engine |-> e, event_type |-> event_type])
       /\ UNCHANGED <<AuxVars, MonVars, BlVars, now, CtlVars, PipeVars, LockVars, eng_next_id>>

LiftFreeze(e, lifted_by, resolution, review_ticket) ==
    LET r == lift_freeze(eng_disk, eng_mem[e], lifted_by, resolution, review_ticket)
    IN /\ eng_disk' = r.disk
       /\ eng_mem' = [eng_mem EXCEPT ![e] = r.mem]
       /\ ret' = Ret("lift_freeze", None,
                     [engine |-> e, engine_frozen |-> eng_mem[e].safety_budget.is_frozen,
                      resolution |-> resolution, review_ticket |-> review_ticket])
       /\ UNCHANGED <<AuxVars, MonVars, BlVars, now, CtlVars, PipeVars, LockVars, eng_next_id>>

(***************************************************************************)
(* GovernanceEngine.update_state step by step, for concurrent workers.     *)
(* Each worker runs consume_budget(budget_key); the steps are the file     *)
(* system calls of update_state in program order.                          *)
(***************************************************************************)
Idle == [pc |-> "idle", budget_key |-> None, current_state |-> MissingFile]

UpdReturn(e, success) ==
    Ret("update_state", None, [engine |-> e, success |-> success])

\* consume_budget called: os.path.exists(self.state_path) is evaluated
UpdateStateBegin(e, budget_key) ==
    /\ upd[e].pc = "idle"
    /\ upd_hist.started < MaxUpdates
    /\ upd' = [upd EXCEPT ![e] = [pc |-> IF eng_disk.exists THEN "open" ELSE "create",
                                  budget_key |-> budget_key, current_state |-> MissingFile]]
    /\ upd_hist' = [upd_hist EXCEPT !.started = @ + 1]
    /\ ret' = Ret("update_state_begin", None, [engine |-> e, success |-> FALSE])
    /\ UNCHANGED <<AuxVars, MonVars, BlVars, now, CtlVars, PipeVars, EngVars, file_lock>>

\* open(self.state_path, 'w'); json.dump(initial_state): no lock is taken
UpdateStateCreate(e) ==
    /\ upd[e].pc = "create"
    /\ eng_disk' = _state_to_dict(eng_mem[e])
    /\ upd' = [upd EXCEPT ![e].pc = "open"]
    /\ ret' = Ret("update_state_create", None, [engine |-> e, success |-> FALSE])
    /\ UNCHANGED <<AuxVars, MonVars, BlVars, now, CtlVars, PipeVars, eng_mem, eng_next_id, file_lock, upd_hist>>

\* open(self.state_path, 'r+'); _acquire_lock(f, exclusive=True) succeeds
UpdateStateLock(e) ==
    /\ upd[e].pc = "open"
    /\ file_lock = None
    /\ file_lock' = e
    /\ upd' = [upd EXCEPT ![e].pc = "read"]
    /\ ret' = Ret("update_state_lock", None, [engine |-> e, success |-> FALSE])
    /\ UNCHANGED <<AuxVars, MonVars, BlVars, now, CtlVars, PipeVars, EngVars, upd_hist>>

\* _acquire_lock gives up while another worker holds the lock: return False
UpdateStateLockTimeout(e) ==
    /\ upd[e].pc = "open"
    /\ file_lock # None
    /\ upd' = [upd EXCEPT ![e] = Idle]
    /\ ret' = UpdReturn(e, FALSE)
    /\ UNCHANGED <<AuxVars, MonVars, BlVars, now, CtlVars, PipeVars, EngVars, file_lock, upd_hist>>

\* f.seek(0); json.load(f)
UpdateStateRead(e) ==
    /\ upd[e].pc = "read"
    /\ upd' = [upd EXCEPT ![e].pc = "write", ![e].current_state = eng_disk]
    /\ ret' = Ret("update_state_read", None, [engine |-> e, success |-> FALSE])
    /\ UNCHANGED <<AuxVars, MonVars, BlVars, now, CtlVars, PipeVars, EngVars, file_lock, upd_hist>>

\* mutator_func(current_state); truncate; json.dump; fsync
UpdateStateWrite(e) ==
    /\ upd[e].pc = "write"
    /\ eng_disk' = mutator_func(Mutator("_consume", [budget_key |-> upd[e].budget_key, amount |-> 1]),
                              upd[e].current_state)
    /\ upd' = [upd EXCEPT ![e].pc = "unlock", ![e].current_state = eng_disk']
    /\ ret' = Ret("update_state_write", None, [engine |-> e, success |-> FALSE])
    /\ UNCHANGED <<AuxVars, MonVars, BlVars, now, CtlVars, PipeVars, eng_mem, eng_next_id, file_lock, upd_hist>>

\* _release_lock(f); _parse_state_data(modified_state); return True
UpdateStateUnlock(e) ==
    /\ upd[e].pc = "unlock"
    /\ file_lock' = None
    /\ eng_mem' = [eng_mem EXCEPT ![e] = _parse_state_data(upd[e].current_state)]
    /\ upd' = [upd EXCEPT ![e] = Idle]
    /\ upd_hist' = [upd_hist EXCEPT ![upd[e].budget_key] = @ + 1]
    /\ ret' = UpdReturn(e, TRUE)
    /\ UNCHANGED <<AuxVars, MonVars, BlVars, now, CtlVars, PipeVars, eng_disk, eng_next_id>>

(***************************************************************************)
(* GovernanceEngine: get_active_overrides                                  *)
(***************************************************************************)
\* The for loop of get_active_overrides from position i on.  iterated is the
\* list object the loop walks; aliased tells whether self.overrides is still
\* that object (update_state, when it succeeds, rebinds self.overrides to
\* freshly parsed objects while the loop keeps walking the old list).
\* Outcome: [disk, mem, active].
RECURSIVE get_active_overrides_from(_, _, _, _, _, _)
get_active_overrides_from(iterated, i, aliased, disk, mem, active) ==
    IF i > Len(iterated)
    THEN [disk |-> disk, mem |-> mem, active |-> active]
    ELSE IF iterated[i].is_active /\ ~ is_expired(iterated[i])
    THEN get_active_overrides_from(iterated, i + 1, aliased, disk, mem,
                                   Append(active, iterated[i]))
    ELSE IF iterated[i].is_active /\ is_expired(iterated[i])
    THEN LET marked == [iterated EXCEPT ![i].is_active = FALSE]
             self == IF aliased THEN [mem EXCEPT !.overrides = marked] ELSE mem
             u == update_state(disk, self, Mutator("_state_to_dict", self))
         IN get_active_overrides_from(marked, i + 1, aliased /\ ~ u.success,
                                      u.disk, u.mem, active)
    ELSE get_active_overrides_from(iterated, i + 1, aliased, disk, mem, active)

get_active_overrides(disk, mem) ==
    get_active_overrides_from(mem.overrides, 1, TRUE, disk, mem, <<>>)

GetActiveOverrides(e) ==
    LET r == get_active_overrides(eng_disk, eng_mem[e])
    IN /\ eng_disk' = r.disk
       /\ eng_mem' = [eng_mem EXCEPT ![e] = r.mem]
       /\ ret' = Ret("get_active_overrides", None,
                     [engine |-> e,
                      active |-> [i \in DOMAIN r.active |-> r.active[i].override_id]])
       /\ UNCHANGED <<AuxVars, MonVars, BlVars, now, CtlVars, PipeVars, LockVars, eng_next_id>>

(***************************************************************************)
(* GovernanceEngine: revoke_override                                       *)
(***************************************************************************)
\* Index of the first override with this id (the local loop returns there)
find_override(overrides, override_id) ==
    CHOOSE i \in DOMAIN overrides :
        /\ overrides[i].override_id = override_id
        /\ \A j \in 1..(i - 1) : overrides[j].override_id # override_id

\* Outcome as [exc, disk, mem]: the _revoke mutator on the state file, then
\* the flag on the instance's own override of that id
revoke_override(disk, mem, override_id) ==
    LET u == update_state(disk, mem, Mutator("_revoke", override_id))
    IN IF ~ u.success
       THEN [exc |-> "ValueError: Failed to revoke override", disk |-> u.disk, mem |-> u.mem]
       ELSE IF \E i \in DOMAIN u.mem.overrides : u.mem.overrides[i].override_id = override_id
       THEN [exc |-> None, disk |-> u.disk,
             mem |-> [u.mem EXCEPT !.overrides = [i \in DOMAIN @ |->
                         IF @[i].override_id = override_id /\ i = find_override(@, override_id)
                         THEN [@[i] EXCEPT !.is_active = FALSE] ELSE @[i]]]]
       ELSE [exc |-> "ValueError: Override not found", disk |-> u.disk, mem |-> u.mem]

RevokeOverride(e, override_id) ==
    LET r == revoke_override(eng_disk, eng_mem[e], override_id)
    IN /\ eng_disk' = r.disk
       /\ eng_mem' = [eng_mem EXCEPT ![e] = r.mem]
       /\ ret' = Ret("revoke_override", r.exc, [engine |-> e, override_id |-> override_id])
       /\ UNCHANGED <<AuxVars, MonVars, BlVars, now, CtlVars, PipeVars, LockVars, eng_next_id>>

(***************************************************************************)
(* GovernanceEngine: canary promotion                                      *)
(***************************************************************************)
CanaryDomains == {"newdomain.com"}
SampleSizes == {1, 20}

\* The signal the engine holds for a domain, a fresh one when it holds none
HeldSignal(mem, domain) ==
    IF domain \in DOMAIN mem.canary_signals THEN mem.canary_signals[domain]
    ELSE CanarySignal(domain)

RecordCanaryResult(e, domain, verdict, sample_size) ==
    LET r == record_canary_result(eng_disk, eng_mem[e], domain, verdict, sample_size)
    IN /\ HeldSignal(eng_mem[e], domain).test_runs < MaxCanaryRuns
       /\ eng_disk.safety_budget.canary_failures <= MaxCanaryRuns
       /\ eng_disk' = r.disk
       /\ eng_mem' = [eng_mem EXCEPT ![e] = r.mem]
       /\ ret' = Ret("record_canary_result", None,
                     [engine |-> e, domain |-> domain, verdict |-> verdict,
                      sample_size |-> sample_size, signal |-> r.signal,
                      before |-> HeldSignal(eng_mem[e], domain),
                      charged_before |-> eng_disk.safety_budget.canary_failures])
       /\ UNCHANGED <<AuxVars, MonVars, BlVars, now, CtlVars, PipeVars, LockVars, eng_next_id>>

CheckPromotionEligibility(e, domain) ==
    /\ ret' = Ret("check_promotion_eligibility", None,
                  [engine |-> e, domain |-> domain,
                   eligible |-> check_promotion_eligibility(eng_mem[e], domain)])
    /\ UNCHANGED <<AuxVars, MonVars, BlVars, now, CtlVars, PipeVars, LockVars, EngVars>>

\* promote_canary: raises ValueError unless eligible, else returns the record
PromoteCanary(e, domain, approved_by, review_ticket) ==
    /\ ret' = Ret("promote_canary",
                  IF check_promotion_eligibility(eng_mem[e], domain)
                  THEN None ELSE "ValueError: Cannot promote",
                  [engine |-> e, domain |-> domain,
                   eligible |-> check_promotion_eligibility(eng_mem[e], domain)])
    /\ UNCHANGED <<AuxVars, MonVars, BlVars, now, CtlVars, PipeVars, LockVars, EngVars>>

(***************************************************************************)
(* Calibration: the monitor's status and the governance gate               *)
(***************************************************************************)
\* CalibrationMonitor.check_calibration_health: "unknown" when no metrics load
MonitorStatus == {"healthy", "degraded", "unknown"}

\* safety_governance.CalibrationStatus, and the member a monitor status names
CalibrationStatus == {"HEALTHY", "DEGRADED", "UNKNOWN"}

CalibrationStatusOf(status) ==
    CASE status = "healthy" -> "HEALTHY"
      [] status = "degraded" -> "DEGRADED"
      [] status = "unknown" -> "UNKNOWN"

forbidden_actions == {"canary_promotion", "allowlist_expansion", "permanent_override"}
GovernanceActions == forbidden_actions \cup {"emergency_override"}

\* check_calibration_allows_governance: the "allowed" element of the result
check_calibration_allows_governance(calibration_status, action) ==
    IF calibration_status = "HEALTHY" THEN TRUE
    ELSE IF action \in forbidden_actions THEN FALSE
    ELSE IF calibration_status = "UNKNOWN" THEN FALSE
    ELSE TRUE

\* GovernanceEngine.get_calibration_policy_adjustment; the penalty in
\* thousandths, the warning message as whether one is returned
get_calibration_policy_adjustment(calibration_status) ==
    IF calibration_status = "healthy"
    THEN [confidence_penalty |-> 0, restrict_phishing |-> FALSE, require_warning |-> FALSE,
          ci_should_warn |-> FALSE, warning_message |-> None]
    ELSE IF calibration_status = "degraded"
    THEN [confidence_penalty |-> 200, restrict_phishing |-> TRUE, require_warning |-> TRUE,
          ci_should_warn |-> TRUE,
          warning_message |-> "Model calibration is degraded. Confidence reduced."]
    ELSE [confidence_penalty |-> 100, restrict_phishing |-> TRUE, require_warning |-> TRUE,
          ci_should_warn |-> TRUE,
          warning_message |-> "Calibration status unknown. Results may be unreliable."]

\* GovernanceEngine.apply_calibration_restriction
apply_calibration_restriction(original_verdict, calibration_status) ==
    IF get_calibration_policy_adjustment(calibration_status).restrict_phishing
       /\ original_verdict = "PHISHING"
    THEN "SUSPICIOUS"
    ELSE original_verdict

GetCalibrationPolicyAdjustment(calibration_status) ==
    /\ ret' = Ret("get_calibration_policy_adjustment", None,
                  [calibration_status |-> calibration_status,
                   adjustment |-> get_calibration_policy_adjustment(calibration_status)])
    /\ UNCHANGED <<AuxVars, MonVars, BlVars, now, CtlVars, PipeVars, EngVars, LockVars>>

ApplyCalibrationRestriction(original_verdict, calibration_status) ==
    /\ ret' = Ret("apply_calibration_restriction", None,
                  [original_verdict |-> original_verdict,
                   calibration_status |-> calibration_status,
                   verdict |-> apply_calibration_restriction(original_verdict, calibration_status)])
    /\ UNCHANGED <<AuxVars, MonVars, BlVars, now, CtlVars, PipeVars, EngVars, LockVars>>

\* The metrics file is rewritten and the monitor loads it
LoadMetrics(status) ==
    /\ calibration' = status
    /\ ret' = Ret("load_metrics", None, [status |-> status])
    /\ UNCHANGED <<AuxVars, BlVars, now, CtlVars, PipeVars, EngVars, LockVars>>

CheckCalibrationAllowsGovernance(calibration_status, action) ==
    /\ ret' = Ret("check_calibration_allows_governance", None,
                  [calibration_status |-> calibration_status, action |-> action,
                   allowed |-> check_calibration_allows_governance(calibration_status, action)])
    /\ UNCHANGED <<AuxVars, MonVars, BlVars, now, CtlVars, PipeVars, EngVars, LockVars>>

\* assert_calibration_allows: raises CalibrationViolationError when not allowed
AssertCalibrationAllows(calibration_status, action) ==
    /\ ret' = Ret("assert_calibration_allows",
                  IF check_calibration_allows_governance(calibration_status, action)
                  THEN None ELSE "CalibrationViolationError",
                  [calibration_status |-> calibration_status, action |-> action,
                   allowed |-> check_calibration_allows_governance(calibration_status, action)])
    /\ UNCHANGED <<AuxVars, MonVars, BlVars, now, CtlVars, PipeVars, EngVars, LockVars>>

(***************************************************************************)
(* blocklist.py: BlocklistChecker, one step per statement                  *)
(***************************************************************************)
CACHE_REFRESH_HOURS == 1

Threads == {"t1", "t2"}

\* What the feeds serve at one fetch, and the URLs that requests check
Feeds == {{}, {"http://evil.xyz/other/"}, {"http://evil.xyz/login"}}
CheckedUrls == {"http://evil.xyz/login", "https://city.gov/pay"}

\* BlocklistChecker._normalize_url: lower case, stripped, no trailing slash
_normalize_url(url) ==
    IF url = "http://evil.xyz/other/" THEN "http://evil.xyz/other" ELSE NormalizedUrl(url)

\* tldextract.extract(url): domain.suffix, lower case
blocklist_domain(url) ==
    IF url \in {"http://evil.xyz/other", "http://evil.xyz/other/"}
    THEN "evil.xyz"
    ELSE extract_registered_domain(url)

\* A set built by one refresh; the field refresh numbers the refresh call
\* that built it
Snapshot(refresh, items) == [refresh |-> refresh, items |-> items]
NoSnapshot == Snapshot(0 - 1, {})

\* A thread outside check
ThreadIdle == [pc |-> "idle", url |-> None, new_urls |-> NoSnapshot,
               new_domains |-> NoSnapshot, seen_urls |-> 0 - 1]

\* BlocklistChecker._needs_refresh
_needs_refresh ==
    \/ blocklist.last_refresh = NoTime
    \/ now - blocklist.last_refresh > CACHE_REFRESH_HOURS * HourTicks

\* threading.Lock held by every thread that bypasses it
lock_is_free_always(holder) == TRUE

\* threading.Lock: acquire returns only when no thread holds the lock
lock_is_free(holder) == holder = None

\* BlocklistResult
BlocklistResult(is_blocked, source, confidence) ==
    [is_blocked |-> is_blocked, source |-> source, confidence |-> confidence]

BlRet(op, t) == Ret(op, None, [thread |-> t])

\* check whose refresh takes self._lock before the feeds are fetched
CheckBegin_lock_before_fetch(t, url) ==
    /\ bl_threads[t].pc = "idle"
    /\ _needs_refresh => lock_is_free(blocklist.lock)
    /\ bl_threads' = [bl_threads EXCEPT ![t] =
           [ThreadIdle EXCEPT !.pc = IF _needs_refresh THEN "refresh_fetch" ELSE "check_lock",
                              !.url = url]]
    /\ blocklist' = [blocklist EXCEPT !.lock = IF _needs_refresh THEN t ELSE @]
    /\ ret' = BlRet("check_begin", t)
    /\ UNCHANGED <<AuxVars, MonVars, now, CtlVars, PipeVars, EngVars, LockVars>>

\* check: self._needs_refresh() decides whether refresh runs first
CheckBegin(t, url) ==
    /\ bl_threads[t].pc = "idle"
    /\ bl_threads' = [bl_threads EXCEPT ![t] =
           [ThreadIdle EXCEPT !.pc = IF _needs_refresh THEN "refresh_fetch" ELSE "check_lock",
                              !.url = url]]
    /\ ret' = BlRet("check_begin", t)
    /\ UNCHANGED <<AuxVars, MonVars, blocklist, now, CtlVars, PipeVars, EngVars, LockVars>>

\* refresh: new_urls and new_domains are built locally from the feeds
RefreshFetch(t, feed) ==
    /\ bl_threads[t].pc = "refresh_fetch"
    /\ bl_threads' = [bl_threads EXCEPT ![t] =
           [@ EXCEPT !.pc = "refresh_lock",
                     !.new_urls = Snapshot(blocklist.refreshes, {_normalize_url(u) : u \in feed}),
                     !.new_domains = Snapshot(blocklist.refreshes, {blocklist_domain(u) : u \in feed})]]
    /\ blocklist' = [blocklist EXCEPT !.refreshes = @ + 1]
    /\ ret' = BlRet("refresh_fetch", t)
    /\ UNCHANGED <<AuxVars, MonVars, now, CtlVars, PipeVars, EngVars, LockVars>>

\* refresh: with self._lock
RefreshLock(t) ==
    /\ bl_threads[t].pc = "refresh_lock"
    /\ lock_is_free(blocklist.lock)
    /\ blocklist' = [blocklist EXCEPT !.lock = t]
    /\ bl_threads' = [bl_threads EXCEPT ![t].pc = "refresh_urls"]
    /\ ret' = BlRet("refresh_lock", t)
    /\ UNCHANGED <<AuxVars, MonVars, now, CtlVars, PipeVars, EngVars, LockVars>>

\* refresh: self._blocked_urls = new_urls
RefreshAssignUrls(t) ==
    /\ bl_threads[t].pc = "refresh_urls"
    /\ blocklist' = [blocklist EXCEPT !.blocked_urls = bl_threads[t].new_urls]
    /\ bl_threads' = [bl_threads EXCEPT ![t].pc = "refresh_domains"]
    /\ ret' = BlRet("refresh_urls", t)
    /\ UNCHANGED <<AuxVars, MonVars, now, CtlVars, PipeVars, EngVars, LockVars>>

\* refresh: self._blocked_domains = new_domains
RefreshAssignDomains(t) ==
    /\ bl_threads[t].pc = "refresh_domains"
    /\ blocklist' = [blocklist EXCEPT !.blocked_domains = bl_threads[t].new_domains]
    /\ bl_threads' = [bl_threads EXCEPT ![t].pc = "refresh_time"]
    /\ ret' = BlRet("refresh_domains", t)
    /\ UNCHANGED <<AuxVars, MonVars, now, CtlVars, PipeVars, EngVars, LockVars>>

\* refresh: self._last_refresh = datetime.now(), and the lock is released
RefreshAssignTime(t) ==
    /\ bl_threads[t].pc = "refresh_time"
    /\ blocklist' = [blocklist EXCEPT !.last_refresh = now, !.lock = None]
    /\ bl_threads' = [bl_threads EXCEPT ![t].pc = "check_lock"]
    /\ ret' = BlRet("refresh_time", t)
    /\ UNCHANGED <<AuxVars, MonVars, now, CtlVars, PipeVars, EngVars, LockVars>>

\* check: with self._lock
CheckLock(t) ==
    /\ bl_threads[t].pc = "check_lock"
    /\ lock_is_free(blocklist.lock)
    /\ blocklist' = [blocklist EXCEPT !.lock = t]
    /\ bl_threads' = [bl_threads EXCEPT ![t].pc = "check_urls"]
    /\ ret' = BlRet("check_lock", t)
    /\ UNCHANGED <<AuxVars, MonVars, now, CtlVars, PipeVars, EngVars, LockVars>>

\* What check returns, with the refresh numbers of the sets it read
CheckReturn(t, result, seen_urls, seen_domains) ==
    Ret("blocklist_check", None,
        [thread |-> t, url |-> bl_threads[t].url, result |-> result,
         read_domains |-> seen_domains # 0 - 1,
         seen_urls |-> seen_urls, seen_domains |-> seen_domains])

\* check: normalized_url in self._blocked_urls; a match returns
CheckUrls(t) ==
    /\ bl_threads[t].pc = "check_urls"
    /\ IF _normalize_url(bl_threads[t].url) \in blocklist.blocked_urls.items
       THEN /\ blocklist' = [blocklist EXCEPT !.lock = None]
            /\ bl_threads' = [bl_threads EXCEPT ![t] = ThreadIdle]
            /\ ret' = CheckReturn(t, BlocklistResult(TRUE, "blocklist", 990),
                                  blocklist.blocked_urls.refresh, 0 - 1)
       ELSE /\ bl_threads' = [bl_threads EXCEPT ![t].pc = "check_domains",
                                                ![t].seen_urls = blocklist.blocked_urls.refresh]
            /\ ret' = BlRet("check_urls", t)
            /\ UNCHANGED blocklist
    /\ UNCHANGED <<AuxVars, MonVars, now, CtlVars, PipeVars, EngVars, LockVars>>

\* check: domain in self._blocked_domains; the lock is released on return
CheckDomains(t) ==
    /\ bl_threads[t].pc = "check_domains"
    /\ blocklist' = [blocklist EXCEPT !.lock = None]
    /\ bl_threads' = [bl_threads EXCEPT ![t] = ThreadIdle]
    /\ ret' = CheckReturn(t,
                  IF blocklist_domain(bl_threads[t].url) \in blocklist.blocked_domains.items
                  THEN BlocklistResult(TRUE, "blocklist_domain", 850)
                  ELSE BlocklistResult(FALSE, None, 0),
                  bl_threads[t].seen_urls, blocklist.blocked_domains.refresh)
    /\ UNCHANGED <<AuxVars, MonVars, now, CtlVars, PipeVars, EngVars, LockVars>>

(***************************************************************************)
(* Status queries: SafetyGovernanceController.is_frozen, get_freeze_state, *)
(* GovernanceEngine.get_safety_status and app.py governance_status         *)
(***************************************************************************)
IsFrozen ==
    /\ ret' = Ret("is_frozen", None, is_frozen)
    /\ UNCHANGED <<AuxVars, MonVars, BlVars, EngVars, LockVars, now, CtlVars, PipeVars>>

GetFreezeState ==
    /\ ret' = Ret("get_freeze_state", None, load_freeze_state)
    /\ UNCHANGED <<AuxVars, MonVars, BlVars, EngVars, LockVars, now, CtlVars, PipeVars>>

\* get_safety_status: the summary counts len(self.get_active_overrides())
GetSafetyStatus(e) ==
    LET r == get_active_overrides(eng_disk, eng_mem[e])
    IN /\ eng_disk' = r.disk
       /\ eng_mem' = [eng_mem EXCEPT ![e] = r.mem]
       /\ ret' = Ret("get_safety_status", None,
                     [engine |-> e,
                      is_frozen |-> eng_mem[e].safety_budget.is_frozen,
                      budget_exceeded |->
                          \E k \in {"suspicious_on_trusted", "overrides_per_window", "canary_failures"} :
                              is_budget_exceeded(eng_mem[e].safety_budget, k),
                      active_overrides |-> Len(r.active)])
       /\ UNCHANGED <<AuxVars, MonVars, BlVars, now, CtlVars, PipeVars, LockVars, eng_next_id>>

\* governance_status: get_freeze_state() and check_override_budget()
GovernanceStatus ==
    /\ budget_file' = check_override_budget_state(load_budget_state)
    /\ ret' = Ret("governance_status", None,
                  [is_frozen |-> load_freeze_state.is_frozen,
                   freeze_reason |-> load_freeze_state.freeze_reason,
                   budget_exhausted |-> ~ check_override_budget_allowed(load_budget_state)])
    /\ UNCHANGED <<AuxVars, MonVars, BlVars, EngVars, LockVars, now, freeze_file, trust_file, PipeVars>>

(***************************************************************************)
(* policy_audit.py: PolicyAuditLogger.log_override at the level of the     *)
(* writes that reach the file.  The file is the sequence of its lines; a   *)
(* line is the summary or the JSON payload of one entry.  An entry is      *)
(* "large" when its two lines do not fit into the file object's buffer: the *)
(* buffered summary is then written out before the payload, in a write of  *)
(* its own.  A small entry reaches the file in one write when the file is  *)
(* closed.  Every write lands at the end of the file (append mode).        *)
(***************************************************************************)
EntrySizes == {"small", "large"}

WriterIdle == [pc |-> "idle", entry |-> 0, size |-> "small", buffer |-> <<>>]

AuditLine(entry, part) == [entry |-> entry, part |-> part]

AuditRet(t) == Ret("log_override", None, [thread |-> t, entry |-> audit_io.writers[t].entry])

\* log_override up to open(self.log_path, 'a'); entries are numbered in the
\* order in which they are created
LogOverrideOpen(t, size) ==
    /\ audit_io.writers[t].pc = "idle"
    /\ audit_io.created < MaxAppends
    /\ audit_io' = [audit_io EXCEPT !.created = @ + 1,
                                    !.writers[t] = [pc |-> "opened", entry |-> audit_io.created + 1,
                                                    size |-> size, buffer |-> <<>>]]
    /\ ret' = Ret("log_override_open", None, [thread |-> t])
    /\ UNCHANGED <<MonVars, BlVars, EngVars, LockVars, now, CtlVars, PipeVars, consumers, xai_audit, telemetry>>

\* f.write(entry.to_log_line() + "\n")
LogWriteSummary(t) ==
    /\ audit_io.writers[t].pc = "opened"
    /\ audit_io' = [audit_io EXCEPT !.writers[t].pc = "summary_buffered",
                                    !.writers[t].buffer =
                                        Append(@, AuditLine(audit_io.writers[t].entry, "summary"))]
    /\ ret' = Ret("log_write_summary", None, [thread |-> t])
    /\ UNCHANGED <<MonVars, BlVars, EngVars, LockVars, now, CtlVars, PipeVars, consumers, xai_audit, telemetry>>

\* f.write(f"  JSON: {entry.to_json()}\n")
LogWriteJson(t) ==
    /\ audit_io.writers[t].pc = "summary_buffered"
    /\ audit_io' = [audit_io EXCEPT !.writers[t].pc = "json_buffered",
                                    !.writers[t].buffer =
                                        Append(@, AuditLine(audit_io.writers[t].entry, "json"))]
    /\ ret' = Ret("log_write_json", None, [thread |-> t])
    /\ UNCHANGED <<MonVars, BlVars, EngVars, LockVars, now, CtlVars, PipeVars, consumers, xai_audit, telemetry>>

\* Leaving the with block, first half for a large entry: the buffer holding
\* the summary is written out to make room
LogFlushBuffer(t) ==
    /\ audit_io.writers[t].pc = "json_buffered"
    /\ audit_io.writers[t].size = "large"
    /\ Len(audit_io.writers[t].buffer) = 2
    /\ audit_io' = [audit_io EXCEPT !.file = Append(@, audit_io.writers[t].buffer[1]),
                                    !.writers[t].buffer = Tail(@)]
    /\ ret' = Ret("log_flush", None, [thread |-> t])
    /\ UNCHANGED <<MonVars, BlVars, EngVars, LockVars, now, CtlVars, PipeVars, consumers, xai_audit, telemetry>>

\* Leaving the with block: what is still buffered is written and the file
\* is closed; log_override returns the entry
LogClose(t) ==
    /\ audit_io.writers[t].pc = "json_buffered"
    /\ audit_io.writers[t].size = "large" => Len(audit_io.writers[t].buffer) = 1
    /\ audit_io' = [audit_io EXCEPT !.file = @ \o audit_io.writers[t].buffer,
                                    !.writers[t] = [WriterIdle EXCEPT !.entry = audit_io.writers[t].entry]]
    /\ ret' = AuditRet(t)
    /\ UNCHANGED <<MonVars, BlVars, EngVars, LockVars, now, CtlVars, PipeVars, consumers, xai_audit, telemetry>>

(***************************************************************************)
(* safety_governance.py: consume_override_budget called by several request *)
(* threads.  GovernanceStatePersistence._lock is held inside _read_json    *)
(* and inside _write_json, one call at a time; between the calls a thread  *)
(* holds nothing.                                                          *)
(***************************************************************************)
ConsumerIdle == [pc |-> "idle", state |-> SafetyBudgetState]

\* consume_override_budget: assert_not_frozen, then check_override_budget;
\* an exhausted budget triggers the freeze and raises
ConsumeCheck(t, context) ==
    /\ consumers.threads[t].pc = "idle"
    /\ IF is_frozen
       THEN /\ ret' = Ret("consume_override_budget", "SystemFrozenError", [thread |-> t])
            /\ UNCHANGED <<freeze_file, budget_file, consumers>>
       ELSE /\ budget_file' = check_override_budget_state(load_budget_state)
            /\ IF check_override_budget_allowed(load_budget_state)
               THEN /\ consumers' = [consumers EXCEPT !.threads[t].pc = "allowed"]
                    /\ ret' = Ret("consume_check", None, [thread |-> t])
                    /\ UNCHANGED freeze_file
               ELSE /\ freeze_file' = trigger_freeze("BUDGET_EXHAUSTED", "SafetyGovernanceController",
                                                     "BUDGET_EXHAUSTED_ts", context)
                    /\ ret' = Ret("consume_override_budget", "BudgetExhaustedError", [thread |-> t])
                    /\ UNCHANGED consumers
    /\ UNCHANGED <<audit_io, xai_audit, telemetry, MonVars, BlVars, EngVars, LockVars, now, trust_file, PipeVars>>

\* state = self._persistence.load_budget_state()
ConsumeLoad(t) ==
    /\ consumers.threads[t].pc = "allowed"
    /\ consumers' = [consumers EXCEPT !.threads[t] = [pc |-> "loaded", state |-> load_budget_state]]
    /\ ret' = Ret("consume_load", None, [thread |-> t])
    /\ UNCHANGED <<audit_io, xai_audit, telemetry, MonVars, BlVars, EngVars, LockVars, now, CtlVars, PipeVars>>

\* state.override_count_hourly += 1; the window start is set when empty;
\* save_budget_state(state); the call returns
ConsumeSave(t) ==
    /\ consumers.threads[t].pc = "loaded"
    /\ budget_file' = [consumers.threads[t].state EXCEPT
                         !.override_count_hourly = @ + 1,
                         !.override_window_start = IF @ = NoTime THEN now ELSE @]
    /\ consumers' = [consumers EXCEPT !.threads[t] = ConsumerIdle, !.returned = @ + 1]
    /\ ret' = Ret("consume_override_budget", None, [thread |-> t])
    /\ UNCHANGED <<audit_io, xai_audit, telemetry, MonVars, BlVars, EngVars, LockVars, now, freeze_file, trust_file, PipeVars>>

(***************************************************************************)
(* explanation_telemetry.py: the XAI audit logger.  _record_audit_log      *)
(* calls _init_audit_logger() and then info() on the logger it returns.    *)
(* _init_audit_logger takes no lock: its test of the global, the           *)
(* assignment of the global, addHandler and the start of the QueueListener *)
(* are separate steps of the calling thread.  info() puts the record once  *)
(* per QueueHandler attached to the logger; a logger without handler drops *)
(* an INFO record.  Every started listener takes records from the shared   *)
(* queue and hands them to its own file handler on xai_telemetry.jsonl.    *)
(***************************************************************************)
Listeners == 1..2

RecorderIdle == [pc |-> "idle", record |-> 0]

\* QueueHandler.emit, once per attached handler: queue.put_nowait(record)
put_per_handler(q, record, handlers) ==
    q \o [i \in 1..handlers |-> record]

\* _record_audit_log builds the record; _init_audit_logger tests the global
RecordAuditLog(t) ==
    /\ xai_audit.threads[t].pc = "idle"
    /\ xai_audit.created < MaxRecords
    /\ xai_audit' = [xai_audit EXCEPT
           !.created = @ + 1,
           !.threads[t] = [pc |-> IF xai_audit.logger_set THEN "info" ELSE "init_assign",
                           record |-> xai_audit.created + 1]]
    /\ ret' = Ret("init_audit_logger_test", None, [thread |-> t])
    /\ UNCHANGED <<audit_io, consumers, telemetry, MonVars, BlVars, EngVars, LockVars, now, CtlVars, PipeVars>>

\* _audit_logger = logging.getLogger("xai_audit")
InitAssignLogger(t) ==
    /\ xai_audit.threads[t].pc = "init_assign"
    /\ xai_audit' = [xai_audit EXCEPT !.logger_set = TRUE, !.threads[t].pc = "init_add_handler"]
    /\ ret' = Ret("init_audit_logger_assign", None, [thread |-> t])
    /\ UNCHANGED <<audit_io, consumers, telemetry, MonVars, BlVars, EngVars, LockVars, now, CtlVars, PipeVars>>

\* _audit_logger.addHandler(QueueHandler(_audit_queue))
InitAddHandler(t) ==
    /\ xai_audit.threads[t].pc = "init_add_handler"
    /\ xai_audit' = [xai_audit EXCEPT !.handlers = @ + 1, !.threads[t].pc = "init_start"]
    /\ ret' = Ret("init_audit_logger_add_handler", None, [thread |-> t])
    /\ UNCHANGED <<audit_io, consumers, telemetry, MonVars, BlVars, EngVars, LockVars, now, CtlVars, PipeVars>>

\* _audit_listener = QueueListener(...); _audit_listener.start()
InitStartListener(t) ==
    /\ xai_audit.threads[t].pc = "init_start"
    /\ xai_audit' = [xai_audit EXCEPT !.started = @ + 1, !.threads[t].pc = "info"]
    /\ ret' = Ret("init_audit_logger_start", None, [thread |-> t])
    /\ UNCHANGED <<audit_io, consumers, telemetry, MonVars, BlVars, EngVars, LockVars, now, CtlVars, PipeVars>>

\* _init_audit_logger().info(json.dumps(record)); _record_audit_log returns
LoggerInfo(t) ==
    /\ xai_audit.threads[t].pc = "info"
    /\ xai_audit' = [xai_audit EXCEPT
           !.queue = put_per_handler(@, xai_audit.threads[t].record, xai_audit.handlers),
           !.enqueued = IF xai_audit.handlers > 0
                        THEN Append(@, xai_audit.threads[t].record) ELSE @,
           !.threads[t] = RecorderIdle]
    /\ ret' = Ret("record_audit_log", None,
                  [thread |-> t, record |-> xai_audit.threads[t].record,
                   puts |-> xai_audit.handlers])
    /\ UNCHANGED <<audit_io, consumers, telemetry, MonVars, BlVars, EngVars, LockVars, now, CtlVars, PipeVars>>

\* QueueListener._monitor: record = self.dequeue(True)
ListenerDequeue(l) ==
    /\ l <= xai_audit.started
    /\ xai_audit.holding[l] = 0
    /\ xai_audit.queue # <<>>
    /\ xai_audit' = [xai_audit EXCEPT !.holding[l] = Head(xai_audit.queue), !.queue = Tail(@)]
    /\ ret' = Ret("listener_dequeue", None, [listener |-> l])
    /\ UNCHANGED <<audit_io, consumers, telemetry, MonVars, BlVars, EngVars, LockVars, now, CtlVars, PipeVars>>

\* QueueListener._monitor: self.handle(record), the file handler writes a line
ListenerHandle(l) ==
    /\ xai_audit.holding[l] # 0
    /\ xai_audit' = [xai_audit EXCEPT !.file = Append(@, xai_audit.holding[l]), !.holding[l] = 0]
    /\ ret' = Ret("listener_handle", None, [listener |-> l])
    /\ UNCHANGED <<audit_io, consumers, telemetry, MonVars, BlVars, EngVars, LockVars, now, CtlVars, PipeVars>>

(***************************************************************************)
(* explanation_telemetry.py: ExplanationTelemetry.  The two top-signal     *)
(* dicts are sequences of [signal_type, count] in insertion order.  An     *)
(* explanation is a dict ("dict"), a dict whose "risk" entry is None       *)
(* ("risk_none") or an object without get ("none").                        *)
(***************************************************************************)
FLUSH_INTERVAL_SCANS == 100
TOP_SIGNALS_LIMIT == 10

DriftStatuses == {"none", "warning", "significant"}

ExplanationMetrics ==
    [total_scans |-> 0,
     scans_by_verdict |-> [v \in Verdict |-> 0],
     scans_with_complete_analysis |-> 0,
     scans_with_incomplete_analysis |-> 0,
     scans_with_allowlist_override |-> 0,
     scans_without_allowlist_override |-> 0,
     scans_by_drift_status |-> [d \in DriftStatuses |-> 0],
     total_risk_signals |-> 0,
     total_positive_signals |-> 0,
     total_inconclusive_signals |-> 0,
     top_risk_signals |-> <<>>,
     top_inconclusive_checks |-> <<>>]

\* The words that _sanitize_signal looks for, as they occur in
\* signal.lower().strip()
signal_words ==
    [s \in {"WHOIS lookup failed"} |-> {"whois", "failed"}] @@
    [s \in {"DNS resolution failed"} |-> {"dns", "failed"}] @@
    [s \in {"HTTP request failed"} |-> {"http", "failed"}] @@
    [s \in {"Domain age: 2 days"} |-> {"domain age"}] @@
    [s \in {"Using HTTPS"} |-> {"http", "https"}] @@
    [s \in {"SSL certificate invalid"} |-> {"ssl", "certificate"}] @@
    [s \in {"Trusted domain"} |-> {"trusted"}] @@
    [s \in {"Redirect chain"} |-> {"redirect"}] @@
    [s \in {"Suspicious keyword"} |-> {"suspicious"}] @@
    [s \in {"IP address in URL"} |-> {"ip", "address"}] @@
    [s \in {"URL shortener"} |-> {"shortener", "short"}] @@
    [s \in {"Login form"} |-> {"form"}] @@
    [s \in {"Hidden iframe"} |-> {"iframe"}] @@
    [s \in {"Many dots"} |-> {}]

\* ExplanationTelemetry._sanitize_signal
_sanitize_signal(signal) ==
    IF {"whois", "failed"} \subseteq signal_words[signal] THEN "whois_failed"
    ELSE IF {"dns", "failed"} \subseteq signal_words[signal] THEN "dns_failed"
    ELSE IF {"http", "failed"} \subseteq signal_words[signal] THEN "http_failed"
    ELSE IF "domain age" \in signal_words[signal] THEN "domain_age"
    ELSE IF "https" \in signal_words[signal] THEN "https_status"
    ELSE IF signal_words[signal] \cap {"ssl", "certificate"} # {} THEN "ssl_certificate"
    ELSE IF signal_words[signal] \cap {"trusted", "allowlist"} # {} THEN "trusted_domain"
    ELSE IF "redirect" \in signal_words[signal] THEN "redirect_detected"
    ELSE IF "suspicious" \in signal_words[signal] THEN "suspicious_pattern"
    ELSE IF {"ip", "address"} \subseteq signal_words[signal] THEN "ip_address_pattern"
    ELSE IF signal_words[signal] \cap {"shortener", "short"} # {} THEN "url_shortener"
    ELSE IF "form" \in signal_words[signal] THEN "form_detected"
    ELSE IF "iframe" \in signal_words[signal] THEN "iframe_detected"
    ELSE "other_signal"

\* counter[signal_type] = counter.get(signal_type, 0) + 1
count_signal(counter, signal_type) ==
    IF \E i \in DOMAIN counter : counter[i].signal_type = signal_type
    THEN [i \in DOMAIN counter |->
             IF counter[i].signal_type = signal_type
             THEN [counter[i] EXCEPT !.count = @ + 1] ELSE counter[i]]
    ELSE Append(counter, [signal_type |-> signal_type, count |-> 1])

\* for signal in signals: the sanitized type is counted
RECURSIVE count_signals(_, _, _)
count_signals(counter, signals, i) ==
    IF i > Len(signals) THEN counter
    ELSE count_signals(count_signal(counter, _sanitize_signal(signals[i])), signals, i + 1)

\* Position of item i in sorted(counter.items(), key=count, reverse=True):
\* the sort is stable
sorted_position(counter, i) ==
    1 + Cardinality({j \in DOMAIN counter :
                        \/ counter[j].count > counter[i].count
                        \/ counter[j].count = counter[i].count /\ j < i})

\* ExplanationTelemetry._trim_to_top_n
_trim_to_top_n(counter, n) ==
    IF Len(counter) <= n THEN counter
    ELSE [k \in 1..n |-> counter[CHOOSE i \in DOMAIN counter : sorted_position(counter, i) = k]]

\* _record_unsafe up to the first explanation.get: total_scans and verdict
count_scan(m, verdict) ==
    [m EXCEPT !.total_scans = @ + 1,
              !.scans_by_verdict = IF verdict \in DOMAIN @
                                   THEN [@ EXCEPT ![verdict] = @ + 1] ELSE @]

\* _record_unsafe: analysis completion, allowlist and drift counters
count_analysis(m, explanation, drift_status) ==
    [m EXCEPT
       !.scans_with_complete_analysis = IF explanation.analysis_complete THEN @ + 1 ELSE @,
       !.scans_with_incomplete_analysis = IF explanation.analysis_complete THEN @ ELSE @ + 1,
       !.scans_with_allowlist_override = IF explanation.allowlist_override THEN @ + 1 ELSE @,
       !.scans_without_allowlist_override = IF explanation.allowlist_override THEN @ ELSE @ + 1,
       !.scans_by_drift_status = IF drift_status \in DOMAIN @
                                 THEN [@ EXCEPT ![drift_status] = @ + 1] ELSE @]

\* _record_unsafe: signal totals, top-signal dicts and their trimming
count_top_signals(m, explanation) ==
    [m EXCEPT
       !.total_risk_signals = @ + Len(explanation.risk),
       !.total_positive_signals = @ + Len(explanation.positive),
       !.total_inconclusive_signals = @ + Len(explanation.inconclusive),
       !.top_risk_signals =
           _trim_to_top_n(count_signals(@, explanation.risk, 1), TOP_SIGNALS_LIMIT),
       !.top_inconclusive_checks =
           _trim_to_top_n(count_signals(@, explanation.inconclusive, 1), TOP_SIGNALS_LIMIT)]

\* _record_unsafe: outcome as [metrics, exc]; an exception leaves the
\* statements before it done
_record_unsafe(m, explanation, verdict, drift_status) ==
    IF explanation.kind = "none"
    THEN [metrics |-> count_scan(m, verdict), exc |-> "AttributeError"]
    ELSE IF explanation.kind = "risk_none"
    THEN [metrics |-> count_analysis(count_scan(m, verdict), explanation, drift_status),
          exc |-> "TypeError"]
    ELSE [metrics |-> count_top_signals(
                          count_analysis(count_scan(m, verdict), explanation, drift_status),
                          explanation),
          exc |-> None]

Explanation_dict(analysis_complete, allowlist_override, risk, positive, inconclusive) ==
    [kind |-> "dict", analysis_complete |-> analysis_complete,
     allowlist_override |-> allowlist_override, risk |-> risk, positive |-> positive,
     inconclusive |-> inconclusive]

\* The explanations handed to record
Explanations ==
    {Explanation_dict(TRUE, FALSE,
                      <<"WHOIS lookup failed", "DNS resolution failed", "HTTP request failed",
                        "Domain age: 2 days", "Using HTTPS", "SSL certificate invalid",
                        "Redirect chain", "Suspicious keyword">>, <<>>, <<>>),
     Explanation_dict(FALSE, FALSE,
                      <<"IP address in URL", "URL shortener", "Login form", "Hidden iframe",
                        "Many dots", "Trusted domain">>, <<>>,
                      <<"WHOIS lookup failed", "DNS resolution failed">>),
     Explanation_dict(TRUE, TRUE, <<>>, <<"Trusted domain">>, <<>>),
     [Explanation_dict(TRUE, FALSE, <<>>, <<>>, <<>>) EXCEPT !.kind = "risk_none"],
     [Explanation_dict(TRUE, FALSE, <<>>, <<>>, <<>>) EXCEPT !.kind = "none"]}

NoCall == [pc |-> "idle", explanation |-> Explanation_dict(TRUE, FALSE, <<>>, <<>>, <<>>),
           verdict |-> "SAFE", drift_status |-> "none"]

\* record(explanation, verdict, drift_status) is called and reaches
\* "with self._lock"
RecordCall(t, explanation, verdict, drift_status) ==
    /\ telemetry.pending[t].pc = "idle"
    /\ telemetry.calls < MaxScans
    /\ telemetry' = [telemetry EXCEPT
           !.calls = @ + 1,
           !.pending[t] = [pc |-> "waiting", explanation |-> explanation,
                           verdict |-> verdict, drift_status |-> drift_status]]
    /\ ret' = Ret("record_call", None, [thread |-> t])
    /\ UNCHANGED <<audit_io, consumers, xai_audit, MonVars, BlVars, EngVars, LockVars, now, CtlVars, PipeVars>>

\* with self._lock: the lock is acquired
RecordAcquire(t) ==
    /\ telemetry.pending[t].pc = "waiting"
    /\ lock_is_free(telemetry.lock)
    /\ telemetry' = [telemetry EXCEPT !.lock = t, !.pending[t].pc = "locked"]
    /\ ret' = Ret("record_acquire", None, [thread |-> t])
    /\ UNCHANGED <<audit_io, consumers, xai_audit, MonVars, BlVars, EngVars, LockVars, now, CtlVars, PipeVars>>

\* The body under the lock: _record_unsafe, the periodic flush; an exception
\* leaves the with block, releasing the lock, and is caught by record
RecordBody(t) ==
    LET r == _record_unsafe(telemetry.metrics, telemetry.pending[t].explanation,
                            telemetry.pending[t].verdict, telemetry.pending[t].drift_status)
        flush == r.exc = None /\ telemetry.scan_count_since_flush + 1 >= FLUSH_INTERVAL_SCANS
    IN /\ telemetry.pending[t].pc = "locked"
       /\ telemetry' = [telemetry EXCEPT
              !.metrics = r.metrics,
              !.scan_count_since_flush = IF r.exc # None THEN @ ELSE IF flush THEN 0 ELSE @ + 1,
              !.flushes = IF flush THEN @ + 1 ELSE @,
              !.lock = None,
              !.pending[t] = NoCall]
       /\ ret' = Ret("record", None, [thread |-> t, swallowed |-> r.exc])
       /\ UNCHANGED <<audit_io, consumers, xai_audit, MonVars, BlVars, EngVars, LockVars, now, CtlVars, PipeVars>>

Init ==
    /\ now = 0
    /\ freeze_file = FreezeState
    /\ budget_file = SafetyBudgetState
    /\ trust_file = [d \in TrustFileDomains |-> None]
    /\ trusted_domains = TRUSTED_DOMAINS
    /\ cache = [k \in {} |-> k]
    /\ audit_log = <<>>
    /\ eng_disk = MissingFile
    /\ eng_mem = [e \in Engines |-> EmptyEngineState]
    /\ eng_next_id = 0
    /\ upd = [e \in Engines |-> Idle]
    /\ file_lock = None
    /\ upd_hist = [started |-> 0, overrides_used |-> 0, canary_failures |-> 0]
    /\ blocklist = [blocked_urls |-> Snapshot(0, {}), blocked_domains |-> Snapshot(0, {}),
                    last_refresh |-> 0, lock |-> None, refreshes |-> 1]
    /\ bl_threads = [t \in Threads |-> ThreadIdle]
    /\ calibration = "healthy"
    /\ audit_io = [file |-> <<>>, created |-> 0, writers |-> [t \in Threads |-> WriterIdle]]
    /\ consumers = [threads |-> [t \in Threads |-> ConsumerIdle], returned |-> 0]
    /\ xai_audit = [logger_set |-> FALSE, handlers |-> 0, queue |-> <<>>, started |-> 0, holding |-> [l \in Listeners |-> 0], file |-> <<>>, enqueued |-> <<>>, created |-> 0, threads |-> [t \in Threads |-> RecorderIdle]]
    /\ telemetry = [metrics |-> ExplanationMetrics, lock |-> None, scan_count_since_flush |-> 0, flushes |-> 0, calls |-> 0, pending |-> [t \in Threads |-> NoCall]]
    /\ ret = Ret("init", None, None)

(***************************************************************************)
(* Specifications                                                          *)
(***************************************************************************)
Incidents == {"", "INC-1"}
Justifications == {0, 19, 20}

NextController ==
    \/ Tick
    \/ Restart
    \/ TriggerFreeze("MANUAL_FREEZE", "admin", "INC-1")
    \/ \E i \in Incidents, j \in Justifications : ResumeFromFreeze("admin", i, j)
    \/ CheckOverrideBudget
    \/ ConsumeOverrideBudget("override_requested")
    \/ \E j \in Justifications : ResetBudget("admin", j, "INC-1")
    \/ \E d \in ReportedDomains, v \in Verdict : ReportTrustedDomainVerdict(d, v)
    \/ \E d \in TrustFileDomains : RegisterTrustedDomain(d, "admin")
    \/ \E d \in TrustFileDomains : DemoteToProbation(d)

NextPipeline ==
    \/ \E u \in URLS, b \in BOOLEAN, blk \in BlocklistOutcomes, fe \in FeatureOutcomes,
          p \in Probabilities : Analyze(u, b, blk, fe, p)
    \/ \E u \in URLS, blk \in BlocklistOutcomes, fe \in FeatureOutcomes,
          p \in Probabilities : Scan(u, blk, fe, p)
    \/ \E k \in CacheKeys : CacheExpire(k)
    \/ \E d \in RuntimeDomains : AddDomain(d)
    \/ \E d \in RuntimeDomains : RemoveDomain(d)
    \/ TriggerFreeze("MANUAL_FREEZE", "admin", "INC-1")
    \/ ResumeFromFreeze("admin", "INC-1", MIN_JUSTIFICATION)

\* One worker's engine, with the controller's freeze and resume
OverrideRequests ==
    {<<"emergency", "on-call", "">>, <<"permanent", "security-team", "T-1">>,
     <<"permanent", "security-team", "">>}

NextEngine ==
    \/ \E q \in OverrideRequests : RequestOverride("e1", q[1], q[2], q[3])
    \/ \E ev \in {"suspicious_on_trusted", "override"} : RecordSafetyEvent("e1", ev)
    \/ \E t \in {"", "T-1"} : LiftFreeze("e1", "admin", 0, t)
    \/ EngineInit("e1", "ok")
    \/ TriggerFreeze("MANUAL_FREEZE", "admin", "INC-1")
    \/ ResumeFromFreeze("admin", "INC-1", MIN_JUSTIFICATION)

\* Two workers inside update_state at the same time
NextLock ==
    \/ \E e \in Engines, k \in {"overrides_used", "canary_failures"} : UpdateStateBegin(e, k)
    \/ \E e \in Engines : UpdateStateCreate(e)
    \/ \E e \in Engines : UpdateStateLock(e)
    \/ \E e \in Engines : UpdateStateLockTimeout(e)
    \/ \E e \in Engines : UpdateStateRead(e)
    \/ \E e \in Engines : UpdateStateWrite(e)
    \/ \E e \in Engines : UpdateStateUnlock(e)

\* State files that cannot be read back
NextCorrupt ==
    \/ CorruptFreezeState
    \/ Restart
    \/ TriggerFreeze("MANUAL_FREEZE", "admin", "INC-1")
    \/ ResumeFromFreeze("admin", "INC-1", MIN_JUSTIFICATION)
    \/ ConsumeOverrideBudget("override_requested")
    \/ \E o \in LoadOutcomes : EngineInit("e1", o)
    \/ RecordSafetyEvent("e1", "suspicious_on_trusted")
    \/ RequestOverride("e1", "emergency", "on-call", "")

\* Worker e2 inside update_state while worker e1 runs engine operations
NextTimeout ==
    \/ UpdateStateBegin("e2", "canary_failures")
    \/ UpdateStateCreate("e2")
    \/ UpdateStateLock("e2")
    \/ UpdateStateRead("e2")
    \/ UpdateStateWrite("e2")
    \/ UpdateStateUnlock("e2")
    \/ RecordSafetyEvent("e1", "suspicious_on_trusted")
    \/ LiftFreeze("e1", "admin", MIN_JUSTIFICATION, "T-1")
    \/ RequestOverride("e1", "emergency", "on-call", "")
    \/ EngineInit("e1", "ok")

Next == NextController

Spec == Init /\ [][Next]_vars

SpecPipeline == Init /\ [][NextPipeline]_vars

SpecEngine == Init /\ [][NextEngine]_vars

SpecLock == Init /\ [][NextLock]_vars

SpecCorrupt == Init /\ [][NextCorrupt]_vars

\* Two request threads inside BlocklistChecker.check
NextBlocklist ==
    \/ Tick
    \/ \E t \in Threads, u \in CheckedUrls : CheckBegin(t, u)
    \/ \E t \in Threads, feed \in Feeds : RefreshFetch(t, feed)
    \/ \E t \in Threads : RefreshLock(t)
    \/ \E t \in Threads : RefreshAssignUrls(t)
    \/ \E t \in Threads : RefreshAssignDomains(t)
    \/ \E t \in Threads : RefreshAssignTime(t)
    \/ \E t \in Threads : CheckLock(t)
    \/ \E t \in Threads : CheckUrls(t)
    \/ \E t \in Threads : CheckDomains(t)

SpecBlocklist == Init /\ [][NextBlocklist]_vars

\* Every combination of override type, authority and review ticket
NextAuthority ==
    \E override_type \in OverrideType, authority \in OverrideAuthority,
       review_ticket \in {"", "T-1"} :
        RequestOverride("e1", override_type, authority, review_ticket)

SpecAuthority == Init /\ [][NextAuthority]_vars

\* One engine recording canary results and deciding promotions
NextCanary ==
    \/ \E d \in CanaryDomains, v \in Verdict, n \in SampleSizes :
           RecordCanaryResult("e1", d, v, n)
    \/ \E d \in CanaryDomains : CheckPromotionEligibility("e1", d)
    \/ \E d \in CanaryDomains : PromoteCanary("e1", d, "admin", "T-1")

SpecCanary == Init /\ [][NextCanary]_vars

\* The calibration status changes while governance actions are asked for
NextCalibration ==
    \/ \E status \in MonitorStatus : LoadMetrics(status)
    \/ \E a \in GovernanceActions :
           CheckCalibrationAllowsGovernance(CalibrationStatusOf(calibration), a)
    \/ \E a \in GovernanceActions :
           AssertCalibrationAllows(CalibrationStatusOf(calibration), a)
    \/ RequestOverride("e1", "permanent", "security-team", "T-1")
    \/ \E d \in RuntimeDomains : AddDomain(d)
    \/ \E d \in CanaryDomains : RecordCanaryResult("e1", d, "SAFE", 20)
    \/ \E d \in CanaryDomains : PromoteCanary("e1", d, "admin", "T-1")

SpecCalibration == Init /\ [][NextCalibration]_vars

\* Worker e1 grants overrides that expire; worker e2 loads the state file
\* and lists the active overrides
NextExpiry ==
    \/ Tick
    \/ RequestOverride("e1", "testing", "ci-system", "")
    \/ EngineInit("e2", "ok")
    \/ GetActiveOverrides("e2")

SpecExpiry == Init /\ [][NextExpiry]_vars

\* Runtime allowlist changes against a budget that other overrides also use
NextAllowlist ==
    \/ Tick
    \/ \E d \in RuntimeDomains : AddDomain(d)
    \/ \E d \in RuntimeDomains : RemoveDomain(d)
    \/ ConsumeOverrideBudget("override_requested")
    \/ TriggerFreeze("MANUAL_FREEZE", "admin", "INC-1")
    \/ ResumeFromFreeze("admin", "INC-1", MIN_JUSTIFICATION)

SpecAllowlist == Init /\ [][NextAllowlist]_vars

\* The trust check on plain and imitating strings while the allowlist changes
NextTrust ==
    \/ Tick
    \/ \E url \in URLS \cup AdversarialDomains : Check(url)
    \/ \E d \in RuntimeDomains : AddDomain(d)
    \/ \E d \in RuntimeDomains : RemoveDomain(d)

SpecTrust == Init /\ [][NextTrust]_vars

\* The two scanning endpoints while verdicts on trusted domains are reported
NextFreezeGate ==
    \/ \E u \in URLS, p \in Probabilities :
           Scan(u, "none", [valid |-> TRUE, failed |-> {}, phishing_signals |-> 6], p)
    \/ \E u \in URLS, p \in Probabilities :
           BatchScan(u, "none", [valid |-> TRUE, failed |-> {}, phishing_signals |-> 6], p)
    \/ \E d \in ReportedDomains, v \in Verdict : ReportTrustedDomainVerdict(d, v)
    \/ TriggerFreeze("MANUAL_FREEZE", "admin", "INC-1")
    \/ ResumeFromFreeze("admin", "INC-1", MIN_JUSTIFICATION)

SpecFreezeGate == Init /\ [][NextFreezeGate]_vars

\* Worker e1 grants and revokes overrides while worker e2, which loaded the
\* state file earlier, lists overrides and records its first override event
\* and the first result of a canary
NextSync ==
    \/ Tick
    \/ RequestOverride("e1", "testing", "ci-system", "")
    \/ RevokeOverride("e1", 1)
    \/ EngineInit("e2", "ok")
    \/ GetActiveOverrides("e2")
    \/ /\ eng_mem["e2"].safety_budget.overrides_used = 0
       /\ RecordSafetyEvent("e2", "override")
    \/ \E d \in CanaryDomains :
           /\ d \notin DOMAIN eng_mem["e2"].canary_signals
           /\ RecordCanaryResult("e2", d, "SAFE", 20)

SpecSync == Init /\ [][NextSync]_vars

\* The pipeline and the calibration policy while the calibration status changes
NextDrift ==
    \/ \E status \in MonitorStatus : LoadMetrics(status)
    \/ GetCalibrationPolicyAdjustment(calibration)
    \/ \E v \in Verdict : ApplyCalibrationRestriction(v, calibration)
    \/ \E u \in URLS, fe \in FeatureOutcomes, p \in Probabilities :
           Analyze(u, TRUE, "none", fe, p)

SpecDrift == Init /\ [][NextDrift]_vars

\* Request threads recording explanations on one ExplanationTelemetry
NextTelemetry ==
    \/ \E t \in Threads, e \in Explanations, v \in {"SAFE", "PHISHING"},
          d \in {"none", "warning"} : RecordCall(t, e, v, d)
    \/ \E t \in Threads : RecordAcquire(t)
    \/ \E t \in Threads : RecordBody(t)

SpecTelemetry == Init /\ [][NextTelemetry]_vars

\* Request threads recording XAI audit entries from a fresh process, and
\* the listener threads draining the queue
NextXai ==
    \/ \E t \in Threads : RecordAuditLog(t)
    \/ \E t \in Threads : InitAssignLogger(t)
    \/ \E t \in Threads : InitAddHandler(t)
    \/ \E t \in Threads : InitStartListener(t)
    \/ \E t \in Threads : LoggerInfo(t)
    \/ \E l \in Listeners : ListenerDequeue(l)
    \/ \E l \in Listeners : ListenerHandle(l)

SpecXai == Init /\ [][NextXai]_vars

\* Runtime allowlist changes whose audit write succeeds or fails
NextAuditFailure ==
    \/ Tick
    \/ \E d \in RuntimeDomains : AddDomain(d)
    \/ \E d \in RuntimeDomains : RemoveDomain(d)
    \/ \E d \in RuntimeDomains : AddDomainAuditFails(d)
    \/ \E d \in RuntimeDomains : RemoveDomainAuditFails(d)

SpecAuditFailure == Init /\ [][NextAuditFailure]_vars

\* Status queries while the budget is consumed, overrides are granted and
\* expire, and the system freezes
NextStatus ==
    \/ Tick
    \/ ConsumeOverrideBudget("allowlist")
    \/ TriggerFreeze("MANUAL_FREEZE", "admin", "INC-1")
    \/ RequestOverride("e1", "testing", "ci-system", "")
    \/ IsFrozen
    \/ GetFreezeState
    \/ GetSafetyStatus("e1")
    \/ GovernanceStatus

SpecStatus == Init /\ [][NextStatus]_vars

\* A GovernanceEngine recording safety events next to the controller's
\* freeze protocol and the scan endpoint
NextGlobalFreeze ==
    \/ \E ev \in SafetyEvents : RecordSafetyEvent("e1", ev)
    \/ LiftFreeze("e1", "admin", 0, "T-1")
    \/ \E u \in {"https://city.gov/pay", "https://accounts.google.com"} :
           Scan(u, "none", [valid |-> TRUE, failed |-> {}, phishing_signals |-> 6], 100)
    \/ TriggerFreeze("MANUAL_FREEZE", "admin", "INC-1")
    \/ ResumeFromFreeze("admin", "INC-1", MIN_JUSTIFICATION)

SpecGlobalFreeze == Init /\ [][NextGlobalFreeze]_vars

\* Request threads consuming the override budget within one hour
NextConsume ==
    \/ \E t \in Threads : ConsumeCheck(t, "allowlist")
    \/ \E t \in Threads : ConsumeLoad(t)
    \/ \E t \in Threads : ConsumeSave(t)

SpecConsume == Init /\ [][NextConsume]_vars

\* Two threads appending to the audit log
NextAudit ==
    \/ \E t \in Threads, size \in EntrySizes : LogOverrideOpen(t, size)
    \/ \E t \in Threads : LogWriteSummary(t)
    \/ \E t \in Threads : LogWriteJson(t)
    \/ \E t \in Threads : LogFlushBuffer(t)
    \/ \E t \in Threads : LogClose(t)

SpecAudit == Init /\ [][NextAudit]_vars

SpecTimeout == Init /\ [][NextTimeout]_vars

(***************************************************************************)
(* Properties of the decision pipeline                                     *)
(***************************************************************************)

\* C1: for every URL whose registered domain is in the allowlist at the time
\* of the call, analyze returns verdict SAFE with ml_bypassed = true and does
\* not invoke the model.
C1_TrustSupremacy ==
    (ret.op = "analyze" /\ ret.val.in_allowlist)
        => /\ ret.val.result.verdict = "SAFE"
           /\ ret.val.result.ml_bypassed
           /\ ~ ret.val.model_called

\* C2: whenever the system is frozen, analyze fails with SystemFrozen and
\* returns no AnalysisResult.
C2_FreezeGate ==
    (ret.op = "analyze" /\ ret.val.was_frozen) => ret.exc = "SystemFrozenError"

(***************************************************************************)
(* Properties of the safety governance controller                          *)
(***************************************************************************)

\* C5: report_trusted_domain_verdict with verdict PHISHING raises
\* InvariantViolation and leaves the system frozen with reason
\* TRUSTED_DOMAIN_PHISHING.
C5_PhishingReportFreezes ==
    (ret.op = "report_trusted_domain_verdict" /\ ret.val.verdict = "PHISHING")
        => /\ ret.exc = "InvariantViolationError"
           /\ is_frozen
           /\ freeze_file.freeze_reason = "TRUSTED_DOMAIN_PHISHING"

C5_Witness ==
    /\ ret.op = "report_trusted_domain_verdict"
    /\ ret.val.verdict = "PHISHING"
    /\ ~ ret.val.was_frozen
    /\ ret.exc = "InvariantViolationError"
    /\ is_frozen

GovernanceMutations ==
    {"request_override", "add_domain", "remove_domain", "register_trusted_domain",
     "consume_override_budget"}

ValidResume(r) ==
    /\ r.op = "resume_from_freeze"
    /\ r.exc = None
    /\ r.val.incident_id # ""
    /\ r.val.justification >= MIN_JUSTIFICATION

\* C3: while the system is frozen, every governance mutation (override
\* request, allowlist add/remove, domain registration, budget consume) is
\* refused with SystemFrozen and leaves the persisted governance state
\* unchanged.
C3_FrozenRefusesMutations ==
    [][(/\ is_frozen
        /\ ret'.op \in GovernanceMutations
        /\ ret'.op = "request_override" => ret'.val.valid)
          => /\ ret'.exc = "SystemFrozenError"
             /\ UNCHANGED <<freeze_file, budget_file, trust_file, eng_disk, trusted_domains>>]_vars

\* C4: a freeze is cleared only by a resume_from_freeze call made while
\* frozen with a non-empty incident_id and a justification of at least 20
\* characters; a resume call that raises leaves the FreezeState unchanged; no
\* other operation clears a freeze.
C4_OnlyResumeUnfreezes ==
    [][/\ (freeze_file.is_frozen /\ ~ freeze_file'.is_frozen) => ValidResume(ret')
       /\ (eng_disk.safety_budget.is_frozen /\ ~ eng_disk'.safety_budget.is_frozen)
             => ValidResume(ret')
       /\ (ret'.op = "resume_from_freeze" /\ ret'.exc # None) => freeze_file' = freeze_file]_vars

(***************************************************************************)
(* Properties of the governance engine's override budget                   *)
(***************************************************************************)

\* C9: after three overrides have been granted, the fourth request_override
\* raises the budget error, grants nothing and freezes the system; a request
\* made while the engine is frozen is refused because of the freeze.
C9_FourthRequestRefused ==
    /\ (/\ ret.op = "request_override"
        /\ ret.val.valid
        /\ ~ ret.val.engine_frozen
        /\ ret.val.granted_before = OVERRIDES_PER_WINDOW
        /\ ret.val.used_before = OVERRIDES_PER_WINDOW)
          => /\ ret.exc = "ValueError: Override budget exceeded"
             /\ ~ ret.val.granted
             /\ eng_disk.safety_budget.is_frozen
    /\ (ret.op = "request_override" /\ ret.val.engine_frozen)
          => /\ ret.exc = "ValueError: System is frozen"
             /\ ~ ret.val.granted

\* C10: in every state observable after request_override has granted an
\* override, an override counter above 3 implies that the system is frozen
\* with reason 'Override budget exceeded'.
C10_CounterAboveLimitFrozen ==
    (/\ ret.op = "request_override"
     /\ ret.val.granted
     /\ eng_disk.safety_budget.overrides_used > OVERRIDES_PER_WINDOW)
        => /\ eng_disk.safety_budget.is_frozen
           /\ eng_disk.safety_budget.freeze_reason = "Override budget exceeded"

(***************************************************************************)
(* Properties of update_state under concurrency                            *)
(***************************************************************************)

\* C7: concurrent update_state calls are serialised by the exclusive lock:
\* whenever no call is in progress, the persisted counters equal the
\* sequential application of all successful mutators, so no update is lost.
C7_NoLostUpdate ==
    ((\A e \in Engines : upd[e].pc = "idle") /\ eng_disk.exists)
        => /\ eng_disk.safety_budget.overrides_used = upd_hist.overrides_used
           /\ eng_disk.safety_budget.canary_failures = upd_hist.canary_failures

(***************************************************************************)
(* Properties of the controller's override budget                          *)
(***************************************************************************)

\* C11: inside one budget window and while not frozen, consume_override_budget
\* succeeds and adds one while the counter is below MAX_OVERRIDES_PER_HOUR;
\* at the limit it raises BudgetExhaustedError, leaves the counter as it was
\* and leaves the system frozen with reason BUDGET_EXHAUSTED.  The counter
\* never exceeds the limit, so from zero exactly five calls succeed.
C11_BudgetExhaustion ==
    [][/\ (/\ ret'.op = "consume_override_budget"
           /\ ~ is_frozen
           /\ ~ WindowExpired(budget_file))
          => IF budget_file.override_count_hourly < MAX_OVERRIDES_PER_HOUR
             THEN /\ ret'.exc = None
                  /\ budget_file'.override_count_hourly = budget_file.override_count_hourly + 1
                  /\ freeze_file' = freeze_file
             ELSE /\ ret'.exc = "BudgetExhaustedError"
                  /\ budget_file' = budget_file
                  /\ freeze_file'.is_frozen
                  /\ freeze_file'.freeze_reason = "BUDGET_EXHAUSTED"
       /\ budget_file'.override_count_hourly <= MAX_OVERRIDES_PER_HOUR]_vars

C11_Witness ==
    /\ ret.op = "consume_override_budget"
    /\ ret.exc = "BudgetExhaustedError"
    /\ budget_file.override_count_hourly = MAX_OVERRIDES_PER_HOUR
    /\ is_frozen
    /\ freeze_file.freeze_reason = "BUDGET_EXHAUSTED"

(***************************************************************************)
(* Properties of loading unreadable or corrupt state                       *)
(***************************************************************************)

\* C12: when a persisted governance state file is unreadable or holds corrupt
\* JSON at load time, the component fails closed: a controller started on it
\* reports is_frozen, and an engine loaded from it is frozen.
C12_CorruptStateFailsClosed ==
    /\ (ret.op = "restart" /\ ~ freeze_file.json_valid) => (ret.val /\ is_frozen)
    /\ (ret.op = "engine_init" /\ ret.val.outcome \in {"io_error", "json_error"})
          => eng_mem[ret.val.engine].safety_budget.is_frozen

(***************************************************************************)
(* Properties of the lock timeout                                          *)
(***************************************************************************)

\* C13: when the lock on the governance state file cannot be acquired, the
\* operation is a hard failure: it reports the failure to its caller and
\* leaves the file unchanged; no operation completes silently or answers
\* from stale state.
C13_LockTimeoutIsHardFailure ==
    [][(/\ file_lock # None
        /\ eng_disk.exists
        /\ \/ ret'.op \in {"request_override", "record_safety_event", "engine_init"}
           \/ ret'.op = "lift_freeze" /\ ret'.val.engine_frozen)
          => /\ ret'.exc # None
             /\ eng_disk' = eng_disk]_vars


(***************************************************************************)
(* The model path of analyze over every failure set and a probability grid *)
(***************************************************************************)
\* FailureFlags: every combination of http_failed, whois_failed, dns_failed
AllFailureSets == SUBSET {"http", "whois", "dns"}

\* predict_proba output in thousandths: a grid, and both sides of each threshold
ProbabilityGrid ==
    {20 * k : k \in 0..50}
        \cup {SUSPICIOUS_THRESHOLD - 1, SUSPICIOUS_THRESHOLD, SUSPICIOUS_THRESHOLD + 1,
              PHISHING_THRESHOLD - 1, PHISHING_THRESHOLD, PHISHING_THRESHOLD + 1,
              918, 919, 999}

\* Order of the Verdict members: SAFE < SUSPICIOUS < PHISHING
VerdictRank(verdict) ==
    CASE verdict = "SAFE" -> 0
      [] verdict = "SUSPICIOUS" -> 1
      [] verdict = "PHISHING" -> 2

\* A URL that is neither trusted nor blocklisted, analysed with the cache bypassed
NextVerdict ==
    \E failed \in AllFailureSets, p \in ProbabilityGrid :
        Analyze("http://evil.xyz/login", TRUE, "none",
                [valid |-> TRUE, failed |-> failed, phishing_signals |-> 6], p)

SpecVerdict == Init /\ [][NextVerdict]_vars

\* The same model output analysed with no network failure
NoFailureResult(result) ==
    ModelResult(result.url, [valid |-> TRUE, failed |-> {}, phishing_signals |-> 6],
                result.calibrated_probability)

\* C14: for a fixed model output and any set of network failures, the risk
\* score with the failures is at most the risk score without them, and the
\* verdict with the failures is never higher than the verdict without them
\* (SAFE < SUSPICIOUS < PHISHING), so SAFE and SUSPICIOUS are never upgraded.
C14_FailuresNeverIncreaseRisk ==
    (ret.op = "analyze" /\ ret.val.path = "model")
        => LET result == ret.val.result
               base == NoFailureResult(ret.val.result)
           IN /\ result.risk_score <= base.risk_score
              /\ VerdictRank(result.verdict) <= VerdictRank(base.verdict)
              /\ (base.verdict \in {"SAFE", "SUSPICIOUS"} => result.verdict = base.verdict)

\* A PHISHING model output downgraded to SUSPICIOUS by network failures
C14_Witness ==
    /\ ret.op = "analyze"
    /\ ret.val.path = "model"
    /\ ret.val.result.failure_flags # {{}}
    /\ ret.val.result.verdict = "SUSPICIOUS"
    /\ NoFailureResult(ret.val.result).verdict = "PHISHING"
    /\ ret.val.result.risk_score < NoFailureResult(ret.val.result).risk_score


\* C15: for a URL that is neither trusted nor blocklisted, with feature
\* extraction succeeding and no failure flag set, the verdict is PHISHING iff
\* p >= 0.85, SUSPICIOUS iff 0.55 <= p < 0.85, and SAFE iff p < 0.55.
C15_ThresholdVerdict ==
    (/\ ret.op = "analyze"
     /\ ret.val.path = "model"
     /\ ~ ret.val.result.is_trusted_domain
     /\ ret.val.result.failure_flags = {{}})
        => LET p == ret.val.result.calibrated_probability
               verdict == ret.val.result.verdict
           IN /\ verdict = "PHISHING" <=> p >= PHISHING_THRESHOLD
              /\ verdict = "SUSPICIOUS" <=> (SUSPICIOUS_THRESHOLD <= p /\ p < PHISHING_THRESHOLD)
              /\ verdict = "SAFE" <=> p < SUSPICIOUS_THRESHOLD

\* A probability exactly on the phishing threshold, analysed without failures
C15_Witness ==
    /\ ret.op = "analyze"
    /\ ret.val.path = "model"
    /\ ret.val.result.failure_flags = {{}}
    /\ ret.val.result.calibrated_probability = PHISHING_THRESHOLD
    /\ ret.val.result.verdict = "PHISHING"


\* C16: every AnalysisResult returned by analyze, fresh or from the cache, that
\* has is_trusted_domain or explanation.allowlist_override set has an empty
\* explanation.risk and the verdict SAFE.
C16_TrustedResultHasNoRisk ==
    (/\ ret.op = "analyze"
     /\ (ret.val.result.is_trusted_domain \/ ret.val.result.explanation.allowlist_override))
        => /\ ret.val.result.explanation.risk = 0
           /\ ret.val.result.verdict = "SAFE"

\* A trusted URL analysed while the cache already holds results
C16_Witness ==
    /\ ret.op = "analyze"
    /\ ret.val.path = "trusted"
    /\ ret.val.result.is_trusted_domain
    /\ ret.val.result.explanation.allowlist_override
    /\ ret.val.result.explanation.risk = 0
    /\ DOMAIN cache # {}


\* C17: analyze called twice for the same URL within the cache TTL returns
\* identical AnalysisResults on every pipeline path (trusted, blocklisted,
\* invalid-URL, model): the second call, made with no expiry in between,
\* returns what the first returned.
C17_CacheCoherence ==
    [][(/\ ret.op = "analyze"
        /\ ret'.op = "analyze"
        /\ ret'.val.url = ret.val.url
        /\ ~ ret'.val.bypass_cache)
            => ret'.val.result = ret.val.result]_vars


\* C18: under concurrent refresh and check calls, a check never observes a
\* partially built or mixed blocklist: the blocked_urls and blocked_domains
\* sets it reads were both built by the same completed refresh.
C18_CheckSeesOneSnapshot ==
    /\ (ret.op = "blocklist_check" /\ ret.val.read_domains)
           => ret.val.seen_urls = ret.val.seen_domains
    /\ \A t \in Threads :
           bl_threads[t].pc \in {"check_urls", "check_domains"}
               => blocklist.blocked_urls.refresh = blocklist.blocked_domains.refresh

\* A check that read both sets of a later refresh while the other thread,
\* its new sets built, waits for the lock
C18_Witness ==
    /\ ret.op = "blocklist_check"
    /\ ret.val.read_domains
    /\ ret.val.seen_urls >= 1
    /\ ret.val.result.is_blocked
    /\ \E t \in Threads : bl_threads[t].pc = "refresh_lock"


\* Number of entries of an override list that carry the given override_id
Occurrences(overrides, override_id) ==
    Cardinality({i \in DOMAIN overrides : overrides[i].override_id = override_id})

\* C19: each granted override is atomic: when request_override returns an
\* Override, it appears exactly once in the override list, in memory and
\* persisted, and the override counter has increased by one; when the grant
\* fails, the override list and the counter are unchanged.
C19_GrantIsAtomic ==
    [][ret'.op = "request_override"
        => LET e == ret'.val.engine
           IN IF ret'.val.granted
              THEN /\ Occurrences(eng_mem'[e].overrides, eng_next_id') = 1
                   /\ Occurrences(eng_disk'.overrides, eng_next_id') = 1
                   /\ eng_disk'.safety_budget.overrides_used
                          = eng_disk.safety_budget.overrides_used + 1
              ELSE /\ eng_mem'[e].overrides = eng_mem[e].overrides
                   /\ eng_disk'.overrides = eng_disk.overrides
                   /\ eng_disk'.safety_budget.overrides_used
                          = eng_disk.safety_budget.overrides_used]_vars


\* C20: request_override grants an override only for PERMANENT with authority
\* SECURITY_TEAM and a non-empty review_ticket, EMERGENCY with authority
\* SECURITY_TEAM or ON_CALL, and TESTING with authority CI_SYSTEM; any other
\* combination raises and changes neither the override list nor the budget
\* counters.
C20_AuthorityBoundaries ==
    [][ret'.op = "request_override"
        => LET v == ret'.val
               allowed ==
                   \/ /\ v.override_type = "permanent"
                      /\ v.authority = "security-team"
                      /\ v.review_ticket # ""
                   \/ /\ v.override_type = "emergency"
                      /\ v.authority \in {"security-team", "on-call"}
                   \/ /\ v.override_type = "testing"
                      /\ v.authority = "ci-system"
           IN /\ v.granted => allowed
              /\ ~ allowed
                   => /\ ret'.exc # None
                      /\ eng_disk' = eng_disk
                      /\ eng_mem' = eng_mem]_vars

\* A PERMANENT request of the security team without a review ticket, refused
\* while the override list already holds a granted override
C20_Witness ==
    /\ ret.op = "request_override"
    /\ ret.val.override_type = "permanent"
    /\ ret.val.authority = "security-team"
    /\ ret.val.review_ticket = ""
    /\ ret.exc = "ValueError: authority"
    /\ ~ ret.val.granted
    /\ Len(eng_disk.overrides) >= 1


\* C21: after record_canary_result(domain, PHISHING, n) returns, the domain's
\* CanarySignal held by the engine and persisted in the state file has
\* test_runs and failures each increased by one, sample_size increased by n,
\* consecutive_passes equal to 0, and one canary_failures budget unit has been
\* charged; a SAFE or SUSPICIOUS verdict increases passes and
\* consecutive_passes by one instead.
C21_CanaryResultRecorded ==
    [][ret'.op = "record_canary_result"
        => LET v == ret'.val
               held == eng_mem'[v.engine].canary_signals
               persisted == eng_disk'.canary_signals
           IN /\ v.domain \in DOMAIN held
              /\ v.domain \in DOMAIN persisted
              /\ persisted[v.domain] = held[v.domain]
              /\ held[v.domain].test_runs = v.before.test_runs + 1
              /\ held[v.domain].sample_size = v.before.sample_size + v.sample_size
              /\ IF v.verdict = "PHISHING"
                 THEN /\ held[v.domain].failures = v.before.failures + 1
                      /\ held[v.domain].consecutive_passes = 0
                      /\ eng_disk'.safety_budget.canary_failures = v.charged_before + 1
                 ELSE /\ held[v.domain].passes = v.before.passes + 1
                      /\ held[v.domain].consecutive_passes = v.before.consecutive_passes + 1]_vars


\* C22: check_promotion_eligibility reports eligible exactly when
\* test_runs >= 5, sample_size >= 100, consecutive_passes >= 5 and
\* passes / test_runs = 1.0; so a domain for which a PHISHING canary result was
\* ever recorded is never eligible, and promote_canary for it raises.  Under
\* SpecCanary the persisted canary_failures counter is charged by PHISHING
\* results only and is never reset.
C22_PromotionEligibility ==
    ret.op \in {"check_promotion_eligibility", "promote_canary"}
        => LET held == eng_mem[ret.val.engine].canary_signals
               d == ret.val.domain
           IN /\ ret.val.eligible
                    <=> /\ d \in DOMAIN held
                        /\ held[d].test_runs >= 5
                        /\ held[d].sample_size >= 100
                        /\ held[d].consecutive_passes >= 5
                        /\ held[d].passes = held[d].test_runs
              /\ eng_disk.safety_budget.canary_failures > 0
                    => /\ ~ ret.val.eligible
                       /\ ret.op = "promote_canary" => ret.exc # None


\* C23: whenever the calibration status is not HEALTHY, the governance
\* actions canary_promotion, allowlist_expansion and permanent_override are
\* forbidden: check_calibration_allows_governance denies them,
\* assert_calibration_allows raises, and no canary promotion, allowlist
\* expansion or PERMANENT override is performed in that state; when HEALTHY
\* they are allowed.
C23_CalibrationGate ==
    /\ ret.op \in {"check_calibration_allows_governance", "assert_calibration_allows"}
           => /\ ret.val.calibration_status = "HEALTHY" => ret.val.allowed
              /\ (ret.val.calibration_status # "HEALTHY"
                    /\ ret.val.action \in {"canary_promotion", "allowlist_expansion",
                                           "permanent_override"})
                     => /\ ~ ret.val.allowed
                        /\ ret.op = "assert_calibration_allows"
                               => ret.exc = "CalibrationViolationError"
    /\ (ret.op = "promote_canary" /\ ret.exc = None) => calibration = "healthy"
    /\ (ret.op = "add_domain" /\ ret.exc = None) => calibration = "healthy"
    /\ (ret.op = "request_override" /\ ret.val.granted /\ ret.val.override_type = "permanent")
           => calibration = "healthy"


\* C24: trigger_freeze on an already frozen system leaves the freeze state
\* equal to the state the first call produced; in particular the frozen_at
\* timestamp of the first freeze is retained.
C24_FreezeIdempotent ==
    [][(ret'.op = "trigger_freeze" /\ load_freeze_state.is_frozen)
           => freeze_file' = freeze_file]_vars


\* C25: get_active_overrides returns exactly the overrides that are active
\* and not expired, marks every expired active override inactive as a side
\* effect, and is idempotent: a second call immediately afterwards returns
\* the same overrides.
C25_ActiveOverrides ==
    [][ret'.op = "get_active_overrides"
        => LET e == ret'.val.engine
               before == eng_mem[e].overrides
               after == eng_mem'[e].overrides
           IN /\ {ret'.val.active[i] : i \in DOMAIN ret'.val.active}
                    = {before[i].override_id :
                          i \in {j \in DOMAIN before :
                                    before[j].is_active /\ ~ is_expired(before[j])}}
              /\ \A i \in DOMAIN after : ~ (after[i].is_active /\ is_expired(after[i]))
              /\ (ret.op = "get_active_overrides" /\ ret.val.engine = e)
                    => ret'.val.active = ret.val.active]_vars


C27_TrustedOnlyByRegisteredDomain ==
    ret.op = "check"
    => LET host == tldextract_extract(lower(Chars(ret.val.url)))
       IN /\ ret.val.is_trusted
             => \/ (host.domain \o "." \o host.suffix) \in trusted_domains
                \/ host.suffix \in trusted_domains
          /\ ret.val.url \in {"google.com.evil.xyz", "https://google.com.evil.xyz"}
             => ret.val.registered_domain = "evil.xyz"
          /\ ret.val.url = "google-login.com"
             => ret.val.registered_domain = "google-login.com"

\* C28: while the system is frozen every request to /scan and to
\* /api/batch-scan is answered with HTTP 503 without the pipeline analysing
\* a URL or returning a verdict; in particular the /scan that follows a
\* freeze caused by an invariant violation is answered with 503.
C28_FrozenShortCircuit ==
    [][(load_freeze_state.is_frozen /\ ret'.op \in {"scan", "batch_scan"})
        => /\ ret'.val.status = 503
           /\ cache' = cache]_vars

\* C29: a change that one engine instance committed to the state file (an
\* override it granted, an override it revoked) is never undone by another
\* instance's state sync in get_active_overrides, record_canary_result or
\* record_safety_event: every persisted override is still persisted after
\* the call, and a revoked one is still revoked.
C29_SyncKeepsCommittedChanges ==
    [][ret'.op \in {"get_active_overrides", "record_canary_result", "record_safety_event"}
        => \A i \in DOMAIN eng_disk.overrides :
              \E j \in DOMAIN eng_disk'.overrides :
                  /\ eng_disk'.overrides[j].override_id = eng_disk.overrides[i].override_id
                  /\ ~ eng_disk.overrides[i].is_active => ~ eng_disk'.overrides[j].is_active]_vars

\* C30: the pipeline's confidence penalty includes the calibration penalty:
\* with calibration degraded (penalty 0.20) or unknown (penalty 0.10) an
\* analysis never returns PHISHING from the model path and an unknown status
\* surfaces a warning; with healthy calibration the calibration penalty is 0.
C30_CalibrationPenaltyApplied ==
    /\ (ret.op = "analyze" /\ ret.val.path = "model" /\ calibration # "healthy")
       => /\ ret.val.result.verdict # "PHISHING"
          /\ (calibration = "unknown"
              /\ ret.val.result.calibrated_probability >= PHISHING_THRESHOLD)
             => ret.val.result.warnings # {}
    /\ ret.op = "get_calibration_policy_adjustment"
       => /\ ret.val.adjustment.confidence_penalty =
                 (CASE ret.val.calibration_status = "healthy" -> 0
                    [] ret.val.calibration_status = "degraded" -> 200
                    [] ret.val.calibration_status = "unknown" -> 100)
          /\ ret.val.adjustment.restrict_phishing = (ret.val.calibration_status # "healthy")

\* C31: on the trusted-domain path analyze reports the SAFE verdict to
\* governance and puts the result into the analysis cache before it returns
\* it.
C31_TrustedPathReportsAndCaches ==
    (ret.op = "analyze" /\ ret.val.path = "trusted")
    => /\ ret.val.reported
       /\ NormalizedUrl(ret.val.url) \in DOMAIN cache
       /\ cache[NormalizedUrl(ret.val.url)] = ret.val.result

\* C32: the audit log only grows, and under concurrent log_override calls
\* it consists of complete entries: whenever no append is under way, every
\* summary line is immediately followed by the JSON payload of the same
\* entry, and every payload line follows its own summary.
C32_AuditEntriesComplete ==
    [][/\ Len(audit_io'.file) >= Len(audit_io.file)
       /\ SubSeq(audit_io'.file, 1, Len(audit_io.file)) = audit_io.file
       /\ (\A t \in Threads : audit_io'.writers[t].pc = "idle")
          => /\ Len(audit_io'.file) % 2 = 0
             /\ \A i \in 1..(Len(audit_io'.file) \div 2) :
                   /\ audit_io'.file[2 * i - 1].part = "summary"
                   /\ audit_io'.file[2 * i].part = "json"
                   /\ audit_io'.file[2 * i].entry = audit_io'.file[2 * i - 1].entry]_vars

C34_CounterCountsSuccessfulCalls ==
    /\ budget_file.override_count_hourly <= MAX_OVERRIDES_PER_HOUR
    /\ (\A t \in Threads : consumers.threads[t].pc = "idle")
           => budget_file.override_count_hourly = consumers.returned

\* C35: the freeze is global: while a freeze triggered by the
\* GovernanceEngine (override budget, canary failures, SUSPICIOUS on a
\* trusted domain) has not been lifted, SafetyGovernanceController.is_frozen
\* reports true and the scan freeze gate refuses the request.
C35_FreezeIsGlobal ==
    eng_mem["e1"].safety_budget.is_frozen
        => /\ is_frozen
           /\ ret.op = "scan" => ret.val.status = 503

\* C36: the read-only status queries (is_frozen, get_freeze_state,
\* get_safety_status, GET /api/governance/status) answer without an error,
\* also while the system is frozen, and leave every persisted governance
\* file as it was.
C36_StatusQueriesReadOnly ==
    [][ret'.op \in {"is_frozen", "get_freeze_state", "get_safety_status", "governance_status"}
        => /\ ret'.exc = None
           /\ freeze_file' = freeze_file
           /\ budget_file' = budget_file
           /\ trust_file' = trust_file
           /\ eng_disk' = eng_disk]_vars

\* The budget counters of an engine state, without the freeze fields
BudgetCounters(state) ==
    [suspicious_on_trusted |-> state.safety_budget.suspicious_on_trusted,
     overrides_used |-> state.safety_budget.overrides_used,
     canary_failures |-> state.safety_budget.canary_failures]

\* C37: lifting a freeze (GovernanceEngine.lift_freeze) or resuming from it
\* (SafetyGovernanceController.resume_from_freeze) changes only the freeze
\* fields: the budget counters, the override list and the canary signals
\* are the same before and after, persisted and in the engine's memory.
C37_LiftChangesOnlyFreezeFields ==
    [][((ret'.op = "lift_freeze" /\ ret'.val.engine_frozen)
        \/ (ret'.op = "resume_from_freeze" /\ ret'.exc = None))
        => /\ budget_file' = budget_file
           /\ BudgetCounters(eng_disk') = BudgetCounters(eng_disk)
           /\ eng_disk'.overrides = eng_disk.overrides
           /\ eng_disk'.canary_signals = eng_disk.canary_signals
           /\ \A e \in Engines :
                 /\ BudgetCounters(eng_mem'[e]) = BudgetCounters(eng_mem[e])
                 /\ eng_mem'[e].overrides = eng_mem[e].overrides
                 /\ eng_mem'[e].canary_signals = eng_mem[e].canary_signals]_vars

\* C38: when the audit write fails during an allowlist add or remove, the
\* caller gets a RuntimeError and the operation has no effect: the
\* allowlist and the override budget are as they were before the call.
C38_AuditFailureWithoutEffect ==
    [][(ret'.op \in {"add_domain", "remove_domain"} /\ ret'.exc = "RuntimeError")
        => /\ trusted_domains' = trusted_domains
           /\ budget_file' = budget_file]_vars

\* C39: exactly one consumer is ever started; the audit file holds the
\* enqueued records in enqueue order, each once; and once the producers
\* have returned and the consumer has drained the queue, every enqueued
\* record is in the file, also for first calls that ran concurrently with
\* the initialisation of the logger.
C39_SingleConsumerWritesInOrder ==
    /\ xai_audit.started <= 1
    /\ Len(xai_audit.file) <= Len(xai_audit.enqueued)
    /\ \A i \in 1..Len(xai_audit.file) :
           i <= Len(xai_audit.enqueued) => xai_audit.file[i] = xai_audit.enqueued[i]
    /\ (/\ \A t \in Threads : xai_audit.threads[t].pc = "idle"
        /\ xai_audit.started >= 1
        /\ xai_audit.queue = <<>>
        /\ \A l \in Listeners : xai_audit.holding[l] = 0)
           => xai_audit.file = xai_audit.enqueued

\* C40: no exception of record reaches the caller, and whenever no record
\* call is inside the lock the counters agree: total_scans equals complete
\* plus incomplete analyses and equals scans with plus scans without
\* allowlist override, and each top-signal map has at most ten entries.
C40_CountersNeverCorrupt ==
    /\ ret.op = "record" => ret.exc = None
    /\ telemetry.lock = None
           => /\ telemetry.metrics.total_scans
                     = telemetry.metrics.scans_with_complete_analysis
                       + telemetry.metrics.scans_with_incomplete_analysis
              /\ telemetry.metrics.total_scans
                     = telemetry.metrics.scans_with_allowlist_override
                       + telemetry.metrics.scans_without_allowlist_override
              /\ Len(telemetry.metrics.top_risk_signals) <= TOP_SIGNALS_LIMIT
              /\ Len(telemetry.metrics.top_inconclusive_checks) <= TOP_SIGNALS_LIMIT

====
